---- MODULE Spec2Model ----
(***************************************************************************)
(* A model of EUID (ardikars/EUID, src/src): the 128-bit identifier, its   *)
(* generator (create / create_with_extension / next), the base-32 text     *)
(* codec and the mod-127 checksum.                                         *)
(*                                                                         *)
(* Machine words are kept at their width: a u32 / u64 / u128 is a sequence *)
(* of 32 / 64 / 128 bits, most significant bit first.  Small values (u16,  *)
(* usize indexes, checksums, shift counts) are integers.                   *)
(***************************************************************************)
EXTENDS Integers, Sequences, FiniteSets, TLC

VARIABLES
    euids,   \* generator: the identifiers produced so far, in generation order
    reads,   \* generator: the clock reading each identifier was produced at
    call,    \* generator: the last call, its inputs and what it returned
    x,       \* text codec: an identifier
    y,       \* text codec: a second identifier
    tx,      \* text codec: a string, encode(x, _) or a caller's input
    txsrc,   \* text codec: where tx comes from: "none", "encode_true", "encode_false", "input"
    ty,      \* text codec: encode(y, _)
    res,     \* text codec: what decode(tx) returned
    flip,    \* text codec: the payload bit of tx that was flipped (0: none)
    n,       \* checksum: the identifier whose checksum is taken
    cstd,    \* checksum: m7 of n, feature "std"
    cnostd,  \* checksum: m7 of n, without feature "std"
    z,       \* conversions: a third identifier, next to x and y
    ord,     \* conversions: the results of == and cmp on x, y, z
    arr,     \* conversions: x as [u8; 16], and the build it was made by
    back,    \* conversions: the identifier made from arr
    bitlen,  \* extension length: a u16, its get_ext_bit_len and the test's reference
    fold,    \* checksum: the variable i of m7's loop, fold by fold
    clock,   \* time: a clock reading, an epoch offset and get_timestamp_from_epoch
    again,   \* text codec: the decoded identifier encoded again, and the mode
    nbtx,    \* text codec: encode(x, _) of the build with feature "non_binary"
    nbres,   \* text codec: what decode(tx) of that build returned
    pair,    \* generator: an identifier and two next() calls made on it
    draft    \* draft layout: engine_random_euid's inputs, the words it wrote

vars == <<euids, reads, call, x, y, tx, txsrc, ty, res, flip, n, cstd, cnostd,
          z, ord, arr, back, bitlen, fold, clock, again, nbtx, nbres, pair, draft>>
genVars == <<euids, reads, call>>
textVars == <<x, y, tx, txsrc, ty, res, flip>>
checkVars == <<n, cstd, cnostd>>
convVars == <<z, ord, arr, back>>
auxVars == <<bitlen, fold, clock, again, nbtx, nbres, pair, draft>>

-----------------------------------------------------------------------------
(* Bounds of the model.                                                    *)

\* The longest chain create, next, next, ... the generator model follows.
MaxChain == 3

-----------------------------------------------------------------------------
(* Machine words.                                                          *)

Pow2(k) == 2 ^ k

\* The word whose w bits the function f gives, as a sequence of its bits.
Word(f, w) == SubSeq(f, 1, w)

\* The w-bit word of a small non-negative integer m (m < 2^31).
FromInt(m, w) ==
    Word([i \in 1..w |-> IF w - i > 30 THEN 0 ELSE (m \div Pow2(w - i)) % 2], w)

\* The digit d repeated k times.
Rep(d, k) == Word([i \in 1..k |-> d], k)

\* The w-bit word written as hexadecimal digits d (most significant first).
HexWord(d, w) ==
    LET len == Len(d)
    IN  Word([i \in 1..w |->
                LET k == i - (w - 4 * len)
                IN  IF k < 1 THEN 0
                    ELSE (d[((k - 1) \div 4) + 1] \div Pow2(3 - ((k - 1) % 4))) % 2], w)

\* a >> k and a << k on a word of a's width (bits shifted out are lost).
Shr(a, k) ==
    LET w == Len(a) IN Word([i \in 1..w |-> IF i - k >= 1 THEN a[i - k] ELSE 0], w)
Shl(a, k) ==
    LET w == Len(a) IN Word([i \in 1..w |-> IF i + k <= w THEN a[i + k] ELSE 0], w)

\* a & b, a | b, a ^ b
And(a, b) == LET w == Len(a) IN Word([i \in 1..w |-> a[i] * b[i]], w)
Or(a, b) == LET w == Len(a) IN Word([i \in 1..w |-> IF a[i] + b[i] > 0 THEN 1 ELSE 0], w)
Xor(a, b) == LET w == Len(a) IN Word([i \in 1..w |-> (a[i] + b[i]) % 2], w)

\* `a as uW` for a wider W (zero extension) and for a narrower W (truncation).
ZeroExt(a, w) ==
    LET d == w - Len(a) IN Word([i \in 1..w |-> IF i <= d THEN 0 ELSE a[i - d]], w)
Trunc(a, w) == SubSeq(a, Len(a) - w + 1, Len(a))

\* The value of the 16 bits of a that follow position o.
Val16(a, o) ==
      a[o + 1] * 32768 + a[o + 2] * 16384 + a[o + 3] * 8192 + a[o + 4] * 4096
    + a[o + 5] * 2048 + a[o + 6] * 1024 + a[o + 7] * 512 + a[o + 8] * 256
    + a[o + 9] * 128 + a[o + 10] * 64 + a[o + 11] * 32 + a[o + 12] * 16
    + a[o + 13] * 8 + a[o + 14] * 4 + a[o + 15] * 2 + a[o + 16]

\* `a as usize` / `a as u16` for a word whose value is below 2^16: its low 16 bits.
Low16(a) == Val16(a, Len(a) - 16)

\* Unsigned comparison of two words of one width: -1, 0, 1 (16 bits at a time).
RECURSIVE CmpFrom(_, _, _)
CmpFrom(a, b, j) ==
    IF 16 * (j - 1) >= Len(a) THEN 0
    ELSE LET va == Val16(a, 16 * (j - 1))
             vb == Val16(b, 16 * (j - 1))
         IN  IF va # vb THEN (IF va > vb THEN 1 ELSE -1) ELSE CmpFrom(a, b, j + 1)
Cmp(a, b) == CmpFrom(a, b, 1)
Gt(a, b) == Cmp(a, b) = 1
Lt(a, b) == Cmp(a, b) = -1
Le(a, b) == Cmp(a, b) # 1

\* a + b on words of one width, modulo 2^width (16 bits at a time, carry c).
RECURSIVE AddFrom(_, _, _, _)
AddFrom(a, b, j, c) ==
    IF j = 0 THEN <<>>
    ELSE LET s == Val16(a, 16 * (j - 1)) + Val16(b, 16 * (j - 1)) + c
         IN  AddFrom(a, b, j - 1, s \div 65536) \o FromInt(s % 65536, 16)
Add(a, b) == AddFrom(a, b, Len(a) \div 16, 0)

\* a - b on words of one width, modulo 2^width: a + (!b + 1).
Sub(a, b) ==
    LET w == Len(a)
    IN  Add(a, Add(Word([i \in 1..w |-> 1 - b[i]], w), FromInt(1, w)))

\* The value of a word modulo m (m < 2^15), 16 bits at a time.
RECURSIVE ModFrom(_, _, _, _)
ModFrom(a, m, j, r) ==
    IF 16 * (j - 1) >= Len(a) THEN r
    ELSE ModFrom(a, m, j + 1, (r * 65536 + Val16(a, 16 * (j - 1))) % m)
Mod(a, m) == ModFrom(a, m, 1, 0)

Zero64 == FromInt(0, 64)
One64 == FromInt(1, 64)
Max64 == HexWord(Rep(15, 16), 64)

-----------------------------------------------------------------------------
(* Option and Result.                                                      *)

None == [tag |-> "None"]
Some(v) == [tag |-> "Some", val |-> v]
IsSome(o) == o.tag = "Some"

-----------------------------------------------------------------------------
(* The identifier: struct EUID(u64, u64); e[1] is self.0, e[2] is self.1.  *)

EUID(hi, lo) == <<hi, lo>>

\* impl PartialEq for EUID
eq(a, b) == a[1] = b[1] /\ a[2] = b[2]

\* Mutant of partial_cmp: the low word is compared before the high word.
partial_cmp_lo_first(a, b) ==
    IF a[2] # b[2] THEN (IF Gt(a[2], b[2]) THEN 1 ELSE -1)
    ELSE IF a[1] # b[1] THEN (IF Gt(a[1], b[1]) THEN 1 ELSE -1)
    ELSE 0

\* impl PartialOrd for EUID: -1 Less, 0 Equal, 1 Greater.
partial_cmp(a, b) ==
    IF a[1] # b[1] THEN (IF Gt(a[1], b[1]) THEN 1 ELSE -1)
    ELSE IF a[2] # b[2] THEN (IF Gt(a[2], b[2]) THEN 1 ELSE -1)
    ELSE 0

\* 0x1fffffffffff
TIMESTAMP_BITMASK == HexWord(<<1>> \o Rep(15, 11), 64)
EXT_LEN_BITMASK == 15
EXT_DATA_BITMASK == 32767

\* fn extension(&self) -> Option<u16>
extension(self) ==
    LET ext_len == Low16(And(self[1], FromInt(EXT_LEN_BITMASK, 64)))
    IN  IF ext_len = 0
        THEN None
        ELSE LET bitmask == FromInt(Pow2(ext_len) - 1, 64)
             IN  Some(Low16(And(Shr(self[1], 4), bitmask)))

\* fn timestamp(&self) -> u64
timestamp(self) == And(Shr(self[1], 19), TIMESTAMP_BITMASK)

\* Mutant of get_ext_bit_len: the second comparison is strict (x < 0x0fff).
get_ext_bit_len_strict(ext) ==
    LET x0 == ext % 32768
        n1 == IF x0 <= 255 THEN 8 ELSE 0
        x1 == IF x0 <= 255 THEN (x0 * 256) % 65536 ELSE x0
        n2 == IF x1 < 4095 THEN n1 + 4 ELSE n1
        x2 == IF x1 < 4095 THEN (x1 * 16) % 65536 ELSE x1
        n3 == IF x2 <= 16383 THEN n2 + 2 ELSE n2
        x3 == IF x2 <= 16383 THEN (x2 * 4) % 65536 ELSE x2
        n4 == IF x3 <= 32767 THEN n3 + 1 ELSE n3
    IN  16 - n4

\* Mutant of get_ext_bit_len: the last comparison is strict (x < 0x7fff).
get_ext_bit_len_last_strict(ext) ==
    LET x0 == ext % 32768
        n1 == IF x0 <= 255 THEN 8 ELSE 0
        x1 == IF x0 <= 255 THEN (x0 * 256) % 65536 ELSE x0
        n2 == IF x1 <= 4095 THEN n1 + 4 ELSE n1
        x2 == IF x1 <= 4095 THEN (x1 * 16) % 65536 ELSE x1
        n3 == IF x2 <= 16383 THEN n2 + 2 ELSE n2
        x3 == IF x2 <= 16383 THEN (x2 * 4) % 65536 ELSE x2
        n4 == IF x3 < 32767 THEN n3 + 1 ELSE n3
    IN  16 - n4

\* fn get_ext_bit_len(ext: u16) -> u64; x is a u16, so x <<= k drops the bits
\* shifted out of 16.
get_ext_bit_len(ext) ==
    LET x0 == ext % 32768
        n1 == IF x0 <= 255 THEN 8 ELSE 0
        x1 == IF x0 <= 255 THEN (x0 * 256) % 65536 ELSE x0
        n2 == IF x1 <= 4095 THEN n1 + 4 ELSE n1
        x2 == IF x1 <= 4095 THEN (x1 * 16) % 65536 ELSE x1
        n3 == IF x2 <= 16383 THEN n2 + 2 ELSE n2
        x3 == IF x2 <= 16383 THEN (x2 * 4) % 65536 ELSE x2
        n4 == IF x3 <= 32767 THEN n3 + 1 ELSE n3
    IN  16 - n4

\* fn get_ext_bit_len0(v: u16) -> u64 of the tests: the loop from i = 14 down to
\* i = 1 returns i + 1 at the first i with v >> i != 0, and 1 is returned after it.
RECURSIVE get_ext_bit_len0_loop(_, _)
get_ext_bit_len0_loop(v, i) ==
    IF i > 0
    THEN IF v \div Pow2(i) # 0 THEN i + 1 ELSE get_ext_bit_len0_loop(v, i - 1)
    ELSE 1
get_ext_bit_len0(v) == get_ext_bit_len0_loop(v, 14)

-----------------------------------------------------------------------------
(* The checksum (check.rs): the identifier modulo 127, by folding 7 bits   *)
(* at a time.                                                              *)

\* fn shift_right7(v: (u64, u64)) -> (u64, u64)
shift_right7(v) ==
    LET mask == FromInt(127, 64)
        a1 == And(v[1], mask)
        a == Shr(v[1], 7)
        b == Or(Shr(v[2], 7), Shl(a1, 57))
    IN  <<a, b>>

\* fn add_u128, the loop `while (carry1 != 0) || (carry2 != 0)`: one pass takes
\* the operands <<a1, a2, b1, b2>> to <<sum1, sum2, carry1, carry2>>, and the
\* loop runs passes until both carries are zero.
RECURSIVE add_u128_loop(_)
add_u128_loop(s) ==
    LET sum1 == Xor(s[1], s[3])
        sum2 == Xor(s[2], s[4])
        a2b2 == And(s[2], s[4])
        carry2 == Shl(a2b2, 1)
        carry1 == Or(Shl(And(s[1], s[3]), 1), Shr(a2b2, 63))
    IN  IF carry1 # Zero64 \/ carry2 # Zero64
        THEN add_u128_loop(<<sum1, sum2, carry1, carry2>>)
        ELSE <<sum1, sum2>>

\* fn add_u128(a: (u64, u64), b: (u64, u64)) -> (u64, u64); carry2 starts at 1,
\* so the loop body runs at least once.
add_u128(a, b) == add_u128_loop(<<a[1], a[2], b[1], b[2]>>)

\* fn is_gt_p(v: (u64, u64), p: u64) -> bool
is_gt_p(v, p) == IF v[1] # Zero64 THEN TRUE ELSE Gt(v[2], p)

\* fn m7, without feature "std": the loop `while is_gt_p(i, p)`.
RECURSIVE m7_nostd_loop(_)
m7_nostd_loop(i) ==
    LET p == FromInt(127, 64)
    IN  IF is_gt_p(i, p)
        THEN m7_nostd_loop(add_u128(<<Zero64, And(i[2], p)>>, shift_right7(i)))
        ELSE i

\* pub fn m7(euid: &EUID) -> usize, without feature "std"
m7_nostd(euid) ==
    LET p == FromInt(127, 64)
        i == m7_nostd_loop(add_u128(<<Zero64, And(euid[2], p)>>, shift_right7(euid)))
    IN  IF i[1] = Zero64 /\ i[2] = p THEN 0 ELSE Low16(i[2])

\* fn m7, feature "std": the loop `while i > p` on a u128.
RECURSIVE m7_std_loop(_)
m7_std_loop(i) ==
    LET p == FromInt(127, 128)
    IN  IF Gt(i, p) THEN m7_std_loop(Add(And(i, p), Shr(i, 7))) ELSE i

\* Mutant of m7 (feature "std"): the bits above the low seven are not folded in.
m7_std_without_fold(euid) ==
    LET p == FromInt(127, 128)
        v == Or(Shl(ZeroExt(euid[1], 128), 64), ZeroExt(euid[2], 128))
        i == And(v, p)
    IN  IF i = p THEN 0 ELSE Low16(i)

\* Mutant of m7 (feature "std"): a folded value of 127 is returned as it is.
m7_std_keeps_127(euid) ==
    LET p == FromInt(127, 128)
        v == Or(Shl(ZeroExt(euid[1], 128), 64), ZeroExt(euid[2], 128))
        i == m7_std_loop(Add(And(v, p), Shr(v, 7)))
    IN  Low16(i)

\* pub fn m7(euid: &EUID) -> usize, feature "std"
m7_std(euid) ==
    LET p == FromInt(127, 128)
        v == Or(Shl(ZeroExt(euid[1], 128), 64), ZeroExt(euid[2], 128))
        i == m7_std_loop(Add(And(v, p), Shr(v, 7)))
    IN  IF i = p THEN 0 ELSE Low16(i)

\* crate::check::m7 as the text codec calls it.
m7(euid) == m7_std(euid)

-----------------------------------------------------------------------------
(* The text codec (base32.rs).  A string is the sequence of its characters, *)
(* a character its code point; a u5 / usize is an integer.                 *)

\* usize operations on values below 2^16: a | b, a & b, a >> k, a << k.
UOr(a, b) == Low16(Or(FromInt(a, 64), FromInt(b, 64)))
UAnd(a, b) == Low16(And(FromInt(a, 64), FromInt(b, 64)))
UShr(a, k) == a \div Pow2(k)
UShl(a, k) == a * Pow2(k)

\* The code point of a character of the alphabets below and of '@' and '}'.
Digits == "0123456789"
Upper == "ABCDEFGHIJKLMNOPQRSTUVWXYZ"
Lower == "abcdefghijklmnopqrstuvwxyz"
IndexIn(s, c) == CHOOSE i \in 1..Len(s) : SubSeq(s, i, i) = c
CodePoint(c) ==
    IF \E i \in 1..10 : SubSeq(Digits, i, i) = c THEN 47 + IndexIn(Digits, c)
    ELSE IF \E i \in 1..26 : SubSeq(Upper, i, i) = c THEN 64 + IndexIn(Upper, c)
    ELSE IF \E i \in 1..26 : SubSeq(Lower, i, i) = c THEN 96 + IndexIn(Lower, c)
    ELSE IF c = "@" THEN 64
    ELSE 125
\* The string of a literal, as code points.
Str(lit) == Word([i \in 1..Len(lit) |-> CodePoint(SubSeq(lit, i, i))], Len(lit))

\* Mutant of ENCODING_SYMBOLS: the RFC 4648 alphabet, whose digits stand for the
\* largest values.
ENCODING_SYMBOLS_RFC4648 == Str("ABCDEFGHIJKLMNOPQRSTUVWXYZ234567")

\* static ENCODING_SYMBOLS: &[char]
ENCODING_SYMBOLS == Str("0123456789ABCDEFGHJKMNPQRSTVWXYZ")

\* const MCP: usize = usize::MAX, the mark of a code point that is no symbol;
\* here the largest integer of the model.
MCP == 2147483647

\* static DECODING_SYMBOLS: &[u5], indexed by code point 0 .. 122.
DECODING_SYMBOLS ==
    <<MCP, MCP, MCP, MCP, MCP, MCP, MCP, MCP>> \o  \* 0
    <<MCP, MCP, MCP, MCP, MCP, MCP, MCP, MCP>> \o  \* 8
    <<MCP, MCP, MCP, MCP, MCP, MCP, MCP, MCP>> \o  \* 16
    <<MCP, MCP, MCP, MCP, MCP, MCP, MCP, MCP>> \o  \* 24
    <<MCP, MCP, MCP, MCP, MCP, MCP, MCP, MCP>> \o  \* 32
    <<MCP, MCP, MCP, MCP, MCP, MCP, MCP, MCP>> \o  \* 40
    <<0, 1, 2, 3, 4, 5, 6, 7>> \o                  \* 48
    <<8, 9, MCP, MCP, MCP, MCP, MCP, MCP>> \o      \* 56
    <<MCP, 10, 11, 12, 13, 14, 15, 16>> \o         \* 64
    <<17, 1, 18, 19, 1, 20, 21, 0>> \o             \* 72
    <<22, 23, 24, 25, 26, MCP, 27, 28>> \o         \* 80
    <<29, 30, 31, MCP, MCP, MCP, MCP, MCP>> \o     \* 88
    <<MCP, 10, 11, 12, 13, 14, 15, 16>> \o         \* 96
    <<17, 1, 18, 19, 1, 20, 21, 0>> \o             \* 104
    <<22, 23, 24, 25, 26, MCP, 27, 28>> \o         \* 112
    <<29, 30, 31>>                                 \* 120

\* Mutant of the 5-bit group: the mask 0xf drops the group's highest bit.
U5At_narrow(a, k) == Low16(And(Shr(a, k), FromInt(15, 64)))

\* The u5 of the five bits of the word a above bit k: ((a >> k) & 0x1f) as u5.
U5At(a, k) == Low16(And(Shr(a, k), FromInt(31, 64)))

\* fn to_u5_slice(hi: u64, lo: u64) -> [u5; 27]; dst[k] is element k + 1.
to_u5_slice(hi, lo) ==
    << U5At(hi, 59), U5At(hi, 54), U5At(hi, 49), U5At(hi, 44), U5At(hi, 39),
       U5At(hi, 34), U5At(hi, 29), U5At(hi, 24), U5At(hi, 19), U5At(hi, 14),
       U5At(hi, 9), U5At(hi, 4),
       Low16(Or(Shl(And(hi, FromInt(15, 64)), 1), And(Shr(lo, 63), FromInt(1, 64)))),
       U5At(lo, 58), U5At(lo, 53), U5At(lo, 48), U5At(lo, 43), U5At(lo, 38),
       U5At(lo, 33), U5At(lo, 28), U5At(lo, 23), U5At(lo, 18), U5At(lo, 13),
       U5At(lo, 8), U5At(lo, 3),
       Low16(Shl(And(lo, FromInt(7, 64)), 2)),
       0 >>

\* (slice[k] as u64) << sh
U64Shl(v, sh) == Shl(FromInt(v, 64), sh)

\* Mutant of to_u64_slice: the lowest bit of slice[12], bit 63 of lo, is dropped.
to_u64_slice_drops_bit63(slice) ==
    LET hi ==
            Or(Or(Or(Or(Or(Or(Or(Or(Or(Or(Or(Or(
                U64Shl(slice[1], 59), U64Shl(slice[2], 54)), U64Shl(slice[3], 49)),
                U64Shl(slice[4], 44)), U64Shl(slice[5], 39)), U64Shl(slice[6], 34)),
                U64Shl(slice[7], 29)), U64Shl(slice[8], 24)), U64Shl(slice[9], 19)),
                U64Shl(slice[10], 14)), U64Shl(slice[11], 9)), U64Shl(slice[12], 4)),
                And(Shr(FromInt(slice[13], 64), 1), FromInt(15, 64)))
        lo ==
            Or(Or(Or(Or(Or(Or(Or(Or(Or(Or(Or(Or(Or(
                U64Shl(slice[14], 58),
                Zero64),
                U64Shl(slice[15], 53)), U64Shl(slice[16], 48)), U64Shl(slice[17], 43)),
                U64Shl(slice[18], 38)), U64Shl(slice[19], 33)), U64Shl(slice[20], 28)),
                U64Shl(slice[21], 23)), U64Shl(slice[22], 18)), U64Shl(slice[23], 13)),
                U64Shl(slice[24], 8)), U64Shl(slice[25], 3)),
                Shr(FromInt(slice[26], 64), 2))
    IN  <<hi, lo>>

\* fn to_u64_slice(slice: &[u5; 27]) -> (u64, u64); slice[k] is element k + 1.
to_u64_slice(slice) ==
    LET hi ==
            Or(Or(Or(Or(Or(Or(Or(Or(Or(Or(Or(Or(
                U64Shl(slice[1], 59), U64Shl(slice[2], 54)), U64Shl(slice[3], 49)),
                U64Shl(slice[4], 44)), U64Shl(slice[5], 39)), U64Shl(slice[6], 34)),
                U64Shl(slice[7], 29)), U64Shl(slice[8], 24)), U64Shl(slice[9], 19)),
                U64Shl(slice[10], 14)), U64Shl(slice[11], 9)), U64Shl(slice[12], 4)),
                And(Shr(FromInt(slice[13], 64), 1), FromInt(15, 64)))
        lo ==
            Or(Or(Or(Or(Or(Or(Or(Or(Or(Or(Or(Or(Or(
                U64Shl(slice[14], 58),
                Shl(And(FromInt(slice[13], 64), FromInt(1, 64)), 63)),
                U64Shl(slice[15], 53)), U64Shl(slice[16], 48)), U64Shl(slice[17], 43)),
                U64Shl(slice[18], 38)), U64Shl(slice[19], 33)), U64Shl(slice[20], 28)),
                U64Shl(slice[21], 23)), U64Shl(slice[22], 18)), U64Shl(slice[23], 13)),
                U64Shl(slice[24], 8)), U64Shl(slice[25], 3)),
                Shr(FromInt(slice[26], 64), 2))
    IN  <<hi, lo>>

\* Mutant of encode: symbol 26 leaves out the two high bits of the checksum.
encode_without_check_high(euid, checkmod) ==
    LET slice == to_u5_slice(euid[1], euid[2])
        check == IF checkmod THEN m7(euid) ELSE 127
    IN  [i \in 1..25 |-> ENCODING_SYMBOLS[slice[i] + 1]]
        \o << ENCODING_SYMBOLS[slice[26] + 1],
              ENCODING_SYMBOLS[UAnd(check, 31) + 1] >>

\* Mutant of encode: the last symbol, the low five checksum bits, is not pushed.
encode_without_check_symbol(euid, checkmod) ==
    LET slice == to_u5_slice(euid[1], euid[2])
        check == IF checkmod THEN m7(euid) ELSE 127
    IN  [i \in 1..25 |-> ENCODING_SYMBOLS[slice[i] + 1]]
        \o << ENCODING_SYMBOLS[UOr(slice[26], UShr(check, 5)) + 1] >>

\* pub fn encode(euid: &EUID, checkmod: bool) -> String (not feature "non_binary")
encode(euid, checkmod) ==
    LET slice == to_u5_slice(euid[1], euid[2])
        check == IF checkmod THEN m7(euid) ELSE 127
    IN  [i \in 1..25 |-> ENCODING_SYMBOLS[slice[i] + 1]]
        \o << ENCODING_SYMBOLS[UOr(slice[26], UShr(check, 5)) + 1],
              ENCODING_SYMBOLS[UAnd(check, 31) + 1] >>

\* The errors of decode, and its results.
InvalidLength(a, b) == [tag |-> "InvalidLength", a |-> a, b |-> b]
InvalidCharacter(c) == [tag |-> "InvalidCharacter", c |-> c]
InvalidCheckmod(a, b) == [tag |-> "InvalidCheckmod", a |-> a, b |-> b]
Ok(v) == [tag |-> "Ok", val |-> v]

\* char::len_utf8: the bytes a character takes in a string.
len_utf8(c) == IF c < 128 THEN 1 ELSE IF c < 2048 THEN 2 ELSE IF c < 65536 THEN 3 ELSE 4

\* str::len: the length of a string in bytes.
RECURSIVE str_len(_)
str_len(s) == IF s = <<>> THEN 0 ELSE len_utf8(Head(s)) + str_len(Tail(s))

\* Mutant of the test decode makes of a character: a code point inside the table
\* is taken for a symbol, the MCP mark included.
IsInvalidChar_bound_only(c) == c >= Len(DECODING_SYMBOLS)

\* Whether the loop of decode returns InvalidCharacter at the character c.
IsInvalidChar(c) ==
    IF c >= Len(DECODING_SYMBOLS) THEN TRUE ELSE DECODING_SYMBOLS[c + 1] = MCP

\* Whether the loop of decode returns InvalidCharacter, and the character it
\* returns it at: the first one that is no symbol.
HasInvalidChar(encoded) == \E i \in 1..Len(encoded) : IsInvalidChar(encoded[i])
FirstInvalidChar(encoded) ==
    encoded[CHOOSE i \in 1..Len(encoded) :
                /\ IsInvalidChar(encoded[i])
                /\ \A j \in 1..(i - 1) : ~IsInvalidChar(encoded[j])]

\* Mutant of decode after its loop: InvalidCheckmod carries the recomputed
\* checksum first and the embedded one second.
decode_symbols_swapped(encoded) ==
    LET slice0 == [i \in 1..27 |-> DECODING_SYMBOLS[encoded[i] + 1]]
        r == UAnd(slice0[26], 3)
        slice == [slice0 EXCEPT ![26] = UAnd(slice0[26], 28)]
        e == to_u64_slice(slice)
        check == UOr(UShl(r, 5), slice[27])
    IN  IF check = 127
        THEN Ok(EUID(e[1], e[2]))
        ELSE LET euid == EUID(e[1], e[2])
                 w == m7(euid)
             IN  IF check # w THEN InvalidCheckmod(w, check) ELSE Ok(euid)

\* Mutant of decode after its loop: the sentinel 0x7f is compared like any other
\* checksum.
decode_symbols_always_checks(encoded) ==
    LET slice0 == [i \in 1..27 |-> DECODING_SYMBOLS[encoded[i] + 1]]
        r == UAnd(slice0[26], 3)
        slice == [slice0 EXCEPT ![26] = UAnd(slice0[26], 28)]
        e == to_u64_slice(slice)
        check == UOr(UShl(r, 5), slice[27])
        euid == EUID(e[1], e[2])
        w == m7(euid)
    IN  IF check # w THEN InvalidCheckmod(check, w) ELSE Ok(euid)

\* decode, after its loop: 27 symbols to the identifier and the checksum.
decode_symbols(encoded) ==
    LET slice0 == [i \in 1..27 |-> DECODING_SYMBOLS[encoded[i] + 1]]
        r == UAnd(slice0[26], 3)
        slice == [slice0 EXCEPT ![26] = UAnd(slice0[26], 28)]
        e == to_u64_slice(slice)
        check == UOr(UShl(r, 5), slice[27])
    IN  IF check = 127
        THEN Ok(EUID(e[1], e[2]))
        ELSE LET euid == EUID(e[1], e[2])
                 w == m7(euid)
             IN  IF check # w THEN InvalidCheckmod(check, w) ELSE Ok(euid)

\* Mutant of decode: the characters are looked at before the length.
decode_characters_first(encoded) ==
    IF HasInvalidChar(encoded)
    THEN InvalidCharacter(FirstInvalidChar(encoded))
    ELSE IF str_len(encoded) # 27
    THEN InvalidLength(str_len(encoded), 27)
    ELSE decode_symbols(encoded)

\* pub fn decode(encoded: &str) -> Result<EUID, Error> (not feature "non_binary")
decode(encoded) ==
    IF str_len(encoded) # 27
    THEN InvalidLength(str_len(encoded), 27)
    ELSE IF HasInvalidChar(encoded)
    THEN InvalidCharacter(FirstInvalidChar(encoded))
    ELSE decode_symbols(encoded)

-----------------------------------------------------------------------------
(* The text codec of the build with feature "non_binary" (base32.rs): the  *)
(* identifier and the checksum as three numbers of 45, 20 and 70 bits,     *)
(* written in base 32.                                                     *)

\* The loop `m = p % 32; *c = ENCODING_SYMBOLS[m]; p = (p - m) / 32` over the k
\* characters of a part: the symbol of the lowest five bits comes first.
RECURSIVE encode_part_loop(_, _)
encode_part_loop(p, k) ==
    IF k = 0 THEN <<>>
    ELSE LET m == Mod(p, 32)
         IN  <<ENCODING_SYMBOLS[m + 1]>>
             \o encode_part_loop(Shr(Sub(p, FromInt(m, Len(p))), 5), k - 1)

\* p_str.iter().rev().collect::<String>() of the k characters made from p
encode_part(p, k) ==
    LET p_str == encode_part_loop(p, k)
    IN  Word([i \in 1..k |-> p_str[k + 1 - i]], k)

\* Mutant of encode (feature "non_binary"): p2 is not shifted to make room for
\* the highest bit of lo.
encode_non_binary_unshifted(euid, checkmod) ==
    LET check == FromInt(IF checkmod THEN m7(euid) ELSE 127, 128)
        p1 == Shr(euid[1], 19)
        p2 == Or(And(euid[1], FromInt(524287, 64)), Shr(euid[2], 63))
        p3 == Or(Shl(And(ZeroExt(euid[2], 128), ZeroExt(Shr(Max64, 1), 128)), 7), check)
    IN  encode_part(p1, 9) \o encode_part(p2, 4) \o encode_part(p3, 14)

\* pub fn encode(euid: &EUID, checkmod: bool) -> String (feature "non_binary")
encode_non_binary(euid, checkmod) ==
    LET check == FromInt(IF checkmod THEN m7(euid) ELSE 127, 128)
        p1 == Shr(euid[1], 19)
        p2 == Or(Shl(And(euid[1], FromInt(524287, 64)), 1), Shr(euid[2], 63))
        p3 == Or(Shl(And(ZeroExt(euid[2], 128), ZeroExt(Shr(Max64, 1), 128)), 7), check)
    IN  encode_part(p1, 9) \o encode_part(p2, 4) \o encode_part(p3, 14)

\* A panic of the program, with its message.
Panic(msg) == [tag |-> "Panic", msg |-> msg]

\* The number of characters of s that its first k bytes hold, or -1 when byte
\* index k is not a character boundary (str::split_at panics there).
CharsInBytes(s, k) ==
    IF \E j \in 0..Len(s) : str_len(SubSeq(s, 1, j)) = k
    THEN CHOOSE j \in 0..Len(s) : str_len(SubSeq(s, 1, j)) = k
    ELSE -1

\* The loop `for (i, c) in value.chars().rev().enumerate()` of decode (feature
\* "non_binary") from its pass i on, p being the sum so far: Ok(p) after the last
\* character, or the error the loop returns, or the panic of the table index.
RECURSIVE decode_part(_, _, _)
decode_part(value, i, p) ==
    IF i = Len(value) THEN Ok(p)
    ELSE LET c == value[Len(value) - i]
         IN  IF c > Len(DECODING_SYMBOLS)
             THEN InvalidCharacter(c)
             ELSE IF c >= Len(DECODING_SYMBOLS)
             THEN Panic("index out of bounds")
             ELSE LET v == DECODING_SYMBOLS[c + 1]
                  IN  IF v = MCP
                      THEN InvalidCharacter(c)
                      ELSE decode_part(value, i + 1,
                                       Add(p, Shl(FromInt(v, Len(p)), 5 * i)))

\* decode (feature "non_binary") after its three loops.
decode_parts(p1, p2, p3) ==
    LET check == Low16(And(p3, FromInt(127, 128)))
        hi == Or(Shl(p1, 19), Shr(p2, 1))
        lo == Or(Shl(And(p2, One64), 63),
                 Trunc(And(Shr(p3, 7), ZeroExt(Shr(Max64, 1), 128)), 64))
        euid == EUID(hi, lo)
    IN  IF check = 127
        THEN Ok(euid)
        ELSE LET w == m7(euid)
             IN  IF w = check THEN Ok(euid) ELSE InvalidCheckmod(check, w)

\* pub fn decode(encoded: &str) -> Result<EUID, Error> (feature "non_binary")
decode_non_binary(encoded) ==
    IF str_len(encoded) # 27
    THEN InvalidLength(str_len(encoded), 27)
    ELSE LET c1 == CharsInBytes(encoded, 9)
             c2 == CharsInBytes(encoded, 13)
             r1 == decode_part(SubSeq(encoded, 1, c1), 0, Zero64)
             r2 == decode_part(SubSeq(encoded, c1 + 1, c2), 0, Zero64)
             r3 == decode_part(SubSeq(encoded, c2 + 1, Len(encoded)), 0, FromInt(0, 128))
         IN  IF c1 = -1 THEN Panic("byte index 9 is not a char boundary")
             ELSE IF r1.tag # "Ok" THEN r1
             ELSE IF c2 = -1 THEN Panic("byte index 4 is not a char boundary")
             ELSE IF r2.tag # "Ok" THEN r2
             ELSE IF r3.tag # "Ok" THEN r3
             ELSE decode_parts(r1.val, r2.val, r3.val)

-----------------------------------------------------------------------------
(* Conversions of the identifier (lib.rs): u128 and [u8; 16].              *)

\* impl Ord for EUID: cmp is partial_cmp, unwrapped.
cmp(a, b) == partial_cmp(a, b)

\* impl From<EUID> for u128
u128_from_euid(val) == Or(Shl(ZeroExt(val[1], 128), 64), ZeroExt(val[2], 128))

\* impl From<u128> for EUID
euid_from_u128(value) ==
    EUID(Trunc(Shr(value, 64), 64), Trunc(And(value, ZeroExt(Max64, 128)), 64))

\* The value of the 8 bits of a that follow position o: a byte.
Val8(a, o) ==
      a[o + 1] * 128 + a[o + 2] * 64 + a[o + 3] * 32 + a[o + 4] * 16
    + a[o + 5] * 8 + a[o + 6] * 4 + a[o + 7] * 2 + a[o + 8]

\* u128::to_be_bytes and u128::from_be_bytes; byte k of the array is element k + 1.
to_be_bytes(v) == Word([i \in 1..16 |-> Val8(v, 8 * (i - 1))], 16)
from_be_bytes(b) ==
    Word([k \in 1..128 |-> (b[((k - 1) \div 8) + 1] \div Pow2(7 - ((k - 1) % 8))) % 2], 128)

\* impl From<[u8; 16]> for EUID
euid_from_bytes(value) ==
    LET id == from_be_bytes(value)
    IN  EUID(Trunc(Shr(id, 64), 64), Trunc(And(id, ZeroExt(Max64, 128)), 64))

\* impl From<EUID> for [u8; 16], not feature "euid_64"
bytes_from_euid(value) ==
    to_be_bytes(Or(Shl(ZeroExt(value[1], 128), 64), ZeroExt(value[2], 128)))

\* ((w >> k) & 0xff) as u8
U8At(w, k) == Low16(And(Shr(w, k), FromInt(255, 64)))

\* impl From<EUID> for [u8; 16], feature "euid_64": v[8] .. v[15] are taken from
\* value.0 as v[0] .. v[7] are.
bytes_from_euid_64(value) ==
    << U8At(value[1], 56), U8At(value[1], 48), U8At(value[1], 40), U8At(value[1], 32),
       U8At(value[1], 24), U8At(value[1], 16), U8At(value[1], 8), U8At(value[1], 0),
       U8At(value[1], 56), U8At(value[1], 48), U8At(value[1], 40), U8At(value[1], 32),
       U8At(value[1], 24), U8At(value[1], 16), U8At(value[1], 8), U8At(value[1], 0) >>

-----------------------------------------------------------------------------
(* The random source (random.rs).  An operation calls getrandom at most    *)
(* once, on a buffer of 4 or of 16 bytes; the outcome g is either Err or   *)
(* Ok with the bytes the source yields (16 of them, read big-endian as one  *)
(* word; a 4-byte buffer takes the first four).                            *)

GetRandomErr == [tag |-> "Err"]
GetRandomOk(bytes) == [tag |-> "Ok", val |-> bytes]

\* pub fn random_u32() -> u32
random_u32(g) == IF g.tag = "Ok" THEN Trunc(Shr(g.val, 96), 32) ELSE FromInt(0, 32)

\* pub fn random_u128() -> (u64, u64)
random_u128(g) ==
    IF g.tag = "Ok"
    THEN LET v == g.val
         IN  <<Trunc(Shr(v, 64), 64), Trunc(And(v, ZeroExt(Max64, 128)), 64)>>
    ELSE <<Zero64, Zero64>>

\* The outcomes of getrandom the model draws from: a failure, and the bytes
\* ff..ff fffffffe ffffffff (every padding bit set, the counter half of lo one
\* below its maximum).
GetRandom ==
    { GetRandomErr,
      GetRandomOk(HexWord(Rep(15, 23) \o <<14>> \o Rep(15, 8), 128)) }

-----
(* The generator (lib.rs).  Every operation reads the clock once; the      *)
(* reading `now` and the outcome of getrandom are the operation's inputs.  *)

\* Mutant of create_with_timestamp: the timestamp is not checked against the mask.
create_with_timestamp_unchecked(ts, g) ==
    LET r == random_u128(g)
    IN  Some(EUID(Or(Shl(ts, 19), Shl(And(r[1], FromInt(32767, 64)), 4)), r[2]))

\* Mutant of create_with_timestamp: the random padding is not shifted above the
\* extension-length field.
create_with_timestamp_unshifted(ts, g) ==
    IF Gt(ts, TIMESTAMP_BITMASK)
    THEN None
    ELSE LET r == random_u128(g)
         IN  Some(EUID(Or(Shl(ts, 19), And(r[1], FromInt(32767, 64))), r[2]))

\* Mutant of create_with_timestamp: a failure of the random source makes the
\* generation fail.
create_with_timestamp_fails_closed(ts, g) ==
    IF Gt(ts, TIMESTAMP_BITMASK) \/ g.tag = "Err"
    THEN None
    ELSE LET r == random_u128(g)
         IN  Some(EUID(Or(Shl(ts, 19), Shl(And(r[1], FromInt(32767, 64)), 4)), r[2]))

\* fn create_with_timestamp(timestamp: u64) -> Option<EUID>
create_with_timestamp(ts, g) ==
    IF Gt(ts, TIMESTAMP_BITMASK)
    THEN None
    ELSE LET r == random_u128(g)
         IN  Some(EUID(Or(Shl(ts, 19), Shl(And(r[1], FromInt(32767, 64)), 4)), r[2]))

\* Mutant of create_with_timestamp_and_extension: the random padding is masked to
\* 15 bits whatever the extension length.
create_with_timestamp_and_extension_widepad(ts, ext, g) ==
    IF Gt(ts, TIMESTAMP_BITMASK)
    THEN None
    ELSE IF ext > EXT_DATA_BITMASK
         THEN None
         ELSE LET ext_len == get_ext_bit_len(ext)
                  r == random_u128(g)
                  remain_rand == And(r[1], FromInt(32767, 64))
                  hi == Or(Or(Or(Shl(ts, 19), Shl(remain_rand, 4 + ext_len)),
                              Shl(FromInt(ext, 64), 4)),
                           FromInt(ext_len, 64))
              IN  Some(EUID(hi, r[2]))

\* fn create_with_timestamp_and_extension(timestamp: u64, extension: u16) -> Option<EUID>
create_with_timestamp_and_extension(ts, ext, g) ==
    IF Gt(ts, TIMESTAMP_BITMASK)
    THEN None
    ELSE LET ext_data == ext
         IN  IF ext_data > EXT_DATA_BITMASK
             THEN None
             ELSE LET ext_len == get_ext_bit_len(ext)
                      r == random_u128(g)
                      remain_rand == And(r[1], FromInt(Pow2(15 - ext_len) - 1, 64))
                      hi == Or(Or(Or(Shl(ts, 19), Shl(remain_rand, 4 + ext_len)),
                                  Shl(FromInt(ext_data, 64), 4)),
                               FromInt(ext_len, 64))
                  IN  Some(EUID(hi, r[2]))

\* pub fn create() -> Option<EUID>
create(now, g) == create_with_timestamp(now, g)

\* Mutant of create_with_extension: an over-wide extension is cut to 15 bits.
create_with_extension_truncating(ext, now, g) ==
    create_with_timestamp_and_extension(now, ext % 32768, g)

\* pub fn create_with_extension(extension: u16) -> Option<EUID>
create_with_extension(ext, now, g) ==
    IF ext > EXT_DATA_BITMASK
    THEN None
    ELSE create_with_timestamp_and_extension(now, ext, g)

\* Mutant of next: a fresh identifier is made in the same millisecond too.
next_always_fresh(self, now, g) ==
    LET e == extension(self)
    IN  IF IsSome(e)
        THEN create_with_timestamp_and_extension(now, e.val, g)
        ELSE create_with_timestamp(now, g)

\* Mutant of next: the counter is not incremented in the same millisecond.
next_no_increment(self, now, g) ==
    IF now = timestamp(self)
    THEN LET r_hi == Shr(self[2], 32)
         IN  IF r_hi = HexWord(Rep(15, 8), 64)
             THEN None
             ELSE Some(EUID(self[1], Or(Shl(r_hi, 32), ZeroExt(random_u32(g), 64))))
    ELSE LET e == extension(self)
         IN  IF IsSome(e)
             THEN create_with_timestamp_and_extension(now, e.val, g)
             ELSE create_with_timestamp(now, g)

\* Mutant of next: the counter is incremented without the overflow check.
next_wrapping(self, now, g) ==
    IF now = timestamp(self)
    THEN LET r_hi == Shr(self[2], 32)
         IN  Some(EUID(self[1],
                       Or(Shl(Add(r_hi, One64), 32), ZeroExt(random_u32(g), 64))))
    ELSE LET e == extension(self)
         IN  IF IsSome(e)
             THEN create_with_timestamp_and_extension(now, e.val, g)
             ELSE create_with_timestamp(now, g)

\* Mutant of next: after the clock moved the extension is not carried over.
next_drops_extension(self, now, g) ==
    IF now = timestamp(self)
    THEN LET r_hi == Shr(self[2], 32)
         IN  IF r_hi = HexWord(Rep(15, 8), 64)
             THEN None
             ELSE Some(EUID(self[1],
                            Or(Shl(Add(r_hi, One64), 32), ZeroExt(random_u32(g), 64))))
    ELSE create_with_timestamp(now, g)

\* pub fn next(&self) -> Option<EUID>
next(self, now, g) ==
    IF now = timestamp(self)
    THEN LET r_hi == Shr(self[2], 32)
         IN  IF r_hi = HexWord(Rep(15, 8), 64)
             THEN None
             ELSE Some(EUID(self[1],
                            Or(Shl(Add(r_hi, One64), 32), ZeroExt(random_u32(g), 64))))
    ELSE LET e == extension(self)
         IN  IF IsSome(e)
             THEN create_with_timestamp_and_extension(now, e.val, g)
             ELSE create_with_timestamp(now, g)

\* The clock readings the model draws from: an early millisecond, 2^42, the
\* last timestamp that fits (2^45 - 1) and the first that does not (2^45).
Clocks == { One64, Shl(One64, 42), TIMESTAMP_BITMASK, Shl(One64, 45) }

\* The extension values (u16) the model draws from.
Extensions == {0, 1, 2, 3, 255, 256, 4095, 4096, 16383, 16384, 32767, 32768, 65535}

\* Identifiers a caller obtains otherwise than from the generator (decoded from
\* text, or from a u128): timestamp 1, no extension, every padding bit set and lo
\* at u64::MAX (as in monotonic_test); timestamp 2^42 with extension 1 stored in
\* 5 bits; hi all ones (timestamp 2^45 - 1, extension 0x7fff in 15 bits); and
\* timestamp 2^42 with extension 0 stored in 3 bits below a set padding bit.
Adopted ==
    { EUID(Or(Shl(One64, 19), Shl(FromInt(32767, 64), 4)), Max64),
      EUID(Or(Shl(One64, 61), FromInt(21, 64)), Zero64),
      EUID(Max64, Zero64),
      EUID(Or(Shl(One64, 61), FromInt(1027, 64)), One64) }

NoCall ==
    [op |-> "none", now |-> Zero64, ext |-> None, prev |-> None, rnd |-> "none",
     ret |-> None]

GenInit ==
    /\ euids = <<>>
    /\ reads = <<>>
    /\ call = NoCall

\* The caller starts a chain with EUID::create().
Create ==
    /\ euids = <<>>
    /\ \E now \in Clocks, g \in GetRandom :
        LET r == create(now, g)
        IN  /\ call' = [op |-> "create", now |-> now, ext |-> None, prev |-> None,
                        rnd |-> g.tag, ret |-> r]
            /\ euids' = IF IsSome(r) THEN <<r.val>> ELSE euids
            /\ reads' = IF IsSome(r) THEN <<now>> ELSE reads
            /\ UNCHANGED <<textVars, checkVars, convVars, auxVars>>

\* The caller starts a chain with EUID::create_with_extension(ext).
CreateWithExtension ==
    /\ euids = <<>>
    /\ \E now \in Clocks, g \in GetRandom, ext \in Extensions :
        LET r == create_with_extension(ext, now, g)
        IN  /\ call' = [op |-> "create_with_extension", now |-> now, ext |-> Some(ext),
                        prev |-> None, rnd |-> g.tag, ret |-> r]
            /\ euids' = IF IsSome(r) THEN <<r.val>> ELSE euids
            /\ reads' = IF IsSome(r) THEN <<now>> ELSE reads
            /\ UNCHANGED <<textVars, checkVars, convVars, auxVars>>

\* The caller starts a chain with an identifier obtained elsewhere:
\* EUID::from(u128) or EUID::from_str.
Adopt ==
    /\ euids = <<>>
    /\ call = NoCall
    /\ \E p \in Adopted :
        /\ call' = [op |-> "from", now |-> timestamp(p), ext |-> None, prev |-> None,
                    rnd |-> "none", ret |-> Some(p)]
        /\ euids' = <<p>>
        /\ reads' = <<timestamp(p)>>
    /\ UNCHANGED <<textVars, checkVars, convVars, auxVars>>

\* The caller derives the next identifier from the last one of the chain.
CallNext ==
    /\ Len(euids) >= 1
    /\ Len(euids) < MaxChain
    /\ \E now \in Clocks, g \in GetRandom :
        LET p == euids[Len(euids)]
            r == next(p, now, g)
        IN  /\ call' = [op |-> "next", now |-> now, ext |-> None, prev |-> Some(p),
                        rnd |-> g.tag, ret |-> r]
            /\ euids' = IF IsSome(r) THEN Append(euids, r.val) ELSE euids
            /\ reads' = IF IsSome(r) THEN Append(reads, now) ELSE reads
            /\ UNCHANGED <<textVars, checkVars, convVars, auxVars>>

TextIdle ==
    /\ x = EUID(Zero64, Zero64)
    /\ y = EUID(Zero64, Zero64)
    /\ tx = <<>>
    /\ txsrc = "none"
    /\ ty = <<>>
    /\ res = None
    /\ flip = 0

CheckIdle ==
    /\ n = EUID(Zero64, Zero64)
    /\ cstd = -1
    /\ cnostd = -1

ConvIdle ==
    /\ z = EUID(Zero64, Zero64)
    /\ ord = None
    /\ arr = None
    /\ back = None

\* The operations modelled one by one further below are not driven.
AuxIdle ==
    /\ bitlen = None
    /\ fold = None
    /\ clock = None
    /\ again = None
    /\ nbtx = None
    /\ nbres = None
    /\ pair = None
    /\ draft = None

Init == GenInit /\ TextIdle /\ CheckIdle /\ ConvIdle /\ AuxIdle

Next == Create \/ CreateWithExtension \/ Adopt \/ CallNext

\* The generator: chains of create / create_with_extension / an adopted
\* identifier, and next.
Spec == Init /\ [][Next]_vars

-----------------------------------------------------------------------------
(* The text codec as a caller drives it: two identifiers, encoded in       *)
(* either mode, and a string, encoded or supplied, that is decoded.        *)

\* The identifiers the text codec model draws from; 63 has its three lowest bits
\* set and the checksum 63, whose two highest bits share symbol 26 with them.
TextIds ==
    { EUID(Zero64, Zero64), EUID(Zero64, One64), EUID(Zero64, Shl(One64, 63)),
      EUID(One64, Zero64), EUID(Zero64, FromInt(63, 64)),
      EUID(HexWord(<<0, 1, 2, 3, 4, 5, 6, 7, 8, 9, 10, 11, 12, 13, 14, 15>>, 64),
           HexWord(<<15, 14, 13, 12, 11, 10, 9, 8, 7, 6, 5, 4, 3, 2, 1, 0>>, 64)),
      EUID(Max64, Max64) }

\* The strings a caller hands to decode: the inputs of decode_test and
\* conversion_test, of 0, 25, 26, 27 and 28 characters; two strings with the
\* two-byte character U+00E9: 26 characters in 27 bytes, 27 characters in 28 bytes;
\* strings in lowercase, with the letters I, L, O, with 'u' and with '}' before
\* 'U'; strings that carry the checksum 0x7f; a string that ends in '{' (code
\* point 123); and 27 bytes whose bytes 9 and 10 are the character U+00E9.
Inputs ==
    { <<>>,
      Str("C8754X9NN8H80X298KRKERG8K"),
      Str("C8EE934SR007G5Q94QKKXFRFV8"),
      Str("C8EE934SR007G5Q94QKKXFRFV8B"),
      Str("C8X2HA87098A0W837DX13FEAWVV"),
      Str("C8EE934SR007G5Q94QKKXFRFV8U"),
      Str("C8754X9NN8H80X298KRKERG8KU88"),
      Str("C8EE934SR007G5Q94QKKXFRFV") \o <<233>>,
      Str("C8EE934SR007G5Q94QKKXFRFV8") \o <<233>>,
      Str("OILC8EE934SR007G5Q94QKKXF7Z"),
      Str("C8EE934SR007G5Q94QKKXFRFV}U"),
      Str("c8ee934sr007g5q94qkkxfrfv8b"),
      Str("c8ee934sr007g5q94qkkxfrfv8u"),
      Str("C8ZM14GR4JXG0MQXVY18S8TJNBZ"),
      Str("ZZZZZZZZZZZZZZZZZZZZZZZZZZZ"),
      Str("C8EE934SR007G5Q94QKKXFRFV8") \o <<123>>,
      Str("C8EE934S") \o <<233>> \o Str("07G5Q94QKKXFRFV8B") }

TextInit ==
    /\ x \in TextIds
    /\ y \in TextIds
    /\ tx = <<>>
    /\ txsrc = "none"
    /\ ty = <<>>
    /\ res = None
    /\ flip = 0

\* x.encode(checkmod)
EncodeX ==
    /\ txsrc = "none"
    /\ \E checkmod \in BOOLEAN :
        /\ tx' = encode(x, checkmod)
        /\ txsrc' = IF checkmod THEN "encode_true" ELSE "encode_false"
    /\ UNCHANGED <<x, y, ty, res, flip, genVars, checkVars, convVars, auxVars>>

\* y.encode(checkmod)
EncodeY ==
    /\ ty = <<>>
    /\ \E checkmod \in BOOLEAN : ty' = encode(y, checkmod)
    /\ UNCHANGED <<x, y, tx, txsrc, res, flip, genVars, checkVars, convVars, auxVars>>

\* The caller supplies a string of its own.
Input ==
    /\ txsrc = "none"
    /\ \E s \in Inputs : tx' = s
    /\ txsrc' = "input"
    /\ UNCHANGED <<x, y, ty, res, flip, genVars, checkVars, convVars, auxVars>>

\* EUID::from_str(tx)
Decode ==
    /\ txsrc # "none"
    /\ res = None
    /\ res' = Some(decode(tx))
    /\ UNCHANGED <<x, y, tx, txsrc, ty, flip, genVars, checkVars, convVars, auxVars>>

TextNext == EncodeX \/ EncodeY \/ Input \/ Decode

InitText == GenInit /\ TextInit /\ CheckIdle /\ ConvIdle /\ AuxIdle

SpecText == InitText /\ [][TextNext]_vars

-----------------------------------------------------------------------------
(* A checksummed string that is damaged in one bit before it is decoded.   *)

\* The identifiers the model draws from: those of the text codec model; the
\* checksum 63 of the identifier 63 is one bit away from 0x7f.
FlipIds == TextIds

\* The string s with bit k of its 135 payload bits flipped (bit 1 is the first
\* symbol's highest bit): the symbol that holds the bit is replaced.
FlipPayloadBit(s, k) ==
    LET i == ((k - 1) \div 5) + 1
        w == Pow2(4 - ((k - 1) % 5))
        v == (CHOOSE j \in 1..32 : ENCODING_SYMBOLS[j] = s[i]) - 1
        v2 == IF (v \div w) % 2 = 1 THEN v - w ELSE v + w
    IN  [s EXCEPT ![i] = ENCODING_SYMBOLS[v2 + 1]]

FlipInit ==
    /\ x \in FlipIds
    /\ y = EUID(Zero64, Zero64)
    /\ tx = <<>>
    /\ txsrc = "none"
    /\ ty = <<>>
    /\ res = None
    /\ flip = 0

\* One bit of x.encode(true) is flipped on its way to the decoder.
FlipBit ==
    /\ txsrc = "encode_true"
    /\ res = None
    /\ \E k \in 1..135 :
        /\ tx' = FlipPayloadBit(tx, k)
        /\ flip' = k
    /\ txsrc' = "flipped"
    /\ UNCHANGED <<x, y, ty, res, genVars, checkVars, convVars, auxVars>>

FlipNext == EncodeX \/ FlipBit \/ Decode

InitFlip == GenInit /\ FlipInit /\ CheckIdle /\ ConvIdle /\ AuxIdle

SpecFlip == InitFlip /\ [][FlipNext]_vars

-----------------------------------------------------------------------------
(* The checksum, computed by each of its two implementations.              *)

\* The identifiers the checksum model draws from; 127 and 254 fold to 127.
CheckWords ==
    { Zero64, One64, FromInt(127, 64), FromInt(254, 64), Max64,
      HexWord(<<0, 1, 2, 3, 4, 5, 6, 7, 8, 9, 10, 11, 12, 13, 14, 15>>, 64) }

CheckInit ==
    /\ n \in {EUID(hi, lo) : hi \in CheckWords, lo \in CheckWords}
    /\ cstd = -1
    /\ cnostd = -1

\* m7(&n), built with feature "std"
M7Std ==
    /\ cstd = -1
    /\ cstd' = m7_std(n)
    /\ UNCHANGED <<n, cnostd, genVars, textVars, convVars, auxVars>>

\* m7(&n), built without feature "std"
M7NoStd ==
    /\ cnostd = -1
    /\ cnostd' = m7_nostd(n)
    /\ UNCHANGED <<n, cstd, genVars, textVars, convVars, auxVars>>

CheckNext == M7Std \/ M7NoStd

InitCheck == GenInit /\ TextIdle /\ CheckInit /\ ConvIdle /\ AuxIdle

SpecCheck == InitCheck /\ [][CheckNext]_vars

-----------------------------------------------------------------------------
(* Comparisons and conversions of identifiers, as a caller applies them.   *)

\* The identifiers the conversions model draws from: words that differ in the
\* high word only, in the low word only, in the top bit, and in every byte.
ConvIds ==
    { EUID(Zero64, Zero64), EUID(Zero64, One64), EUID(One64, Zero64),
      EUID(Zero64, Shl(One64, 63)), EUID(Shl(One64, 63), Zero64),
      EUID(HexWord(<<0, 1, 2, 3, 4, 5, 6, 7, 8, 9, 10, 11, 12, 13, 14, 15>>, 64),
           HexWord(<<15, 14, 13, 12, 11, 10, 9, 8, 7, 6, 5, 4, 3, 2, 1, 0>>, 64)),
      EUID(Max64, Max64) }

\* The builds of From<EUID> for [u8; 16].
Builds == {"default", "euid_64"}

ConvInit ==
    /\ x \in ConvIds
    /\ y \in ConvIds
    /\ z \in ConvIds
    /\ tx = <<>>
    /\ txsrc = "none"
    /\ ty = <<>>
    /\ res = None
    /\ flip = 0
    /\ ord = None
    /\ arr = None
    /\ back = None

\* x == y, the comparisons of x, y and z, and u128::from(x), u128::from(y)
Compare ==
    /\ ord = None
    /\ ord' = Some([eq_xy |-> eq(x, y), eq_yx |-> eq(y, x),
                    cmp_xy |-> cmp(x, y), cmp_yx |-> cmp(y, x),
                    cmp_yz |-> cmp(y, z), cmp_xz |-> cmp(x, z),
                    ux |-> u128_from_euid(x), uy |-> u128_from_euid(y),
                    x_again |-> euid_from_u128(u128_from_euid(x))])
    /\ UNCHANGED <<z, arr, back, genVars, textVars, checkVars, auxVars>>

\* let arr: [u8; 16] = x.into(), in either build
IntoBytes ==
    /\ arr = None
    /\ \E build \in Builds :
        arr' = Some([build |-> build,
                     val |-> IF build = "euid_64" THEN bytes_from_euid_64(x)
                             ELSE bytes_from_euid(x)])
    /\ UNCHANGED <<z, ord, back, genVars, textVars, checkVars, auxVars>>

\* let back: EUID = arr.into()
FromBytes ==
    /\ IsSome(arr)
    /\ back = None
    /\ back' = Some(euid_from_bytes(arr.val.val))
    /\ UNCHANGED <<z, ord, arr, genVars, textVars, checkVars, auxVars>>

ConvNext == Compare \/ IntoBytes \/ FromBytes

InitConv == GenInit /\ ConvInit /\ CheckIdle /\ AuxIdle

SpecConv == InitConv /\ [][ConvNext]_vars

-----------------------------------------------------------------------------
(* Properties of the generator, checked under Spec.                        *)

\* 0xffffffff, the largest value of the counter in the upper half of lo.
CounterMax == HexWord(Rep(15, 8), 64)
\* The counter of an identifier: the upper 32 bits of lo.
Counter(e) == Shr(e[2], 32)
\* The extension-length field of an identifier: the low 4 bits of hi.
ExtLenField(e) == Low16(And(e[1], FromInt(15, 64)))
\* 2^42 - 1
Mask42 == HexWord(<<3>> \o Rep(15, 10), 64)
\* 2^45 - 1
Mask45 == HexWord(<<1>> \o Rep(15, 11), 64)
\* The number of bits needed to write e >= 1 (the index of its highest set bit plus one).
BitLen(e) == CHOOSE k \in 1..16 : Pow2(k - 1) <= e /\ e < Pow2(k)
NonDecreasing(s) == \A i \in 1..(Len(s) - 1) : Le(s[i], s[i + 1])
\* The last call read the clock and went on to build an identifier from the reading.
CallPacksClock ==
    \/ call.op = "create"
    \/ call.op = "create_with_extension"
    \/ call.op = "next" /\ call.now # timestamp(call.prev.val)
\* The last call was next() and the clock reading equalled the previous timestamp.
CallNextSameMs == call.op = "next" /\ call.now = timestamp(call.prev.val)

\* C3: a chain x0 = create(..), x(i+1) = x(i).next() made at clock readings that
\* never decrease is strictly increasing under the (hi, lo) ordering: every
\* earlier identifier is less than every later one (so all are distinct).
C3_MonotonicChain ==
    NonDecreasing(reads) =>
        \A i, j \in 1..Len(euids) : i < j => partial_cmp(euids[i], euids[j]) = -1

\* C3 witness: a chain of three, one successor made in the same millisecond and
\* one after the clock advanced.
C3_Witness ==
    /\ Len(euids) = 3
    /\ reads[1] = reads[2]
    /\ Lt(reads[2], reads[3])
    /\ partial_cmp(euids[1], euids[3]) = -1

\* C4: next() in the millisecond of p returns None when the counter of p is
\* 0xFFFFFFFF, and otherwise Some(n) with n.hi = p.hi and the counter of n that of
\* p plus one.
C4_SameMsSuccessor ==
    CallNextSameMs =>
        LET p == call.prev.val
        IN  IF Counter(p) = CounterMax
            THEN call.ret = None
            ELSE /\ IsSome(call.ret)
                 /\ call.ret.val[1] = p[1]
                 /\ Counter(call.ret.val) = Add(Counter(p), One64)

\* C4 witness: next() refused to step a counter of 0xFFFFFFFF.
C4_Witness ==
    /\ CallNextSameMs
    /\ Counter(call.prev.val) = CounterMax
    /\ call.ret = None

\* C5: an identifier built from a timestamp t that fits and an extension e <= 32767
\* reports timestamp() = t and extension() = Some(e), whatever the random words;
\* this covers create_with_extension and next() after the clock moved.
C5_FieldRoundTrip ==
    /\ ( /\ call.op = "create_with_extension"
         /\ Le(call.now, TIMESTAMP_BITMASK)
         /\ call.ext.val <= 32767 )
       => /\ IsSome(call.ret)
          /\ timestamp(call.ret.val) = call.now
          /\ extension(call.ret.val) = Some(call.ext.val)
    /\ ( /\ call.op = "next"
         /\ call.now # timestamp(call.prev.val)
         /\ Le(call.now, TIMESTAMP_BITMASK)
         /\ IsSome(extension(call.prev.val)) )
       => /\ IsSome(call.ret)
          /\ timestamp(call.ret.val) = call.now
          /\ extension(call.ret.val) = extension(call.prev.val)

\* C5 witness: extension 0 was packed under 14 set bits of random padding, at the
\* latest timestamp, and reads back as Some(0).
C5_Witness ==
    /\ call.op = "create_with_extension"
    /\ call.ext = Some(0)
    /\ call.now = TIMESTAMP_BITMASK
    /\ IsSome(call.ret)
    /\ Low16(And(Shr(call.ret.val[1], 5), FromInt(16383, 64))) = 16383
    /\ extension(call.ret.val) = Some(0)

\* C6: with the clock in range, create_with_extension(e) returns None for every
\* e > 32767 and Some for every e <= 32767.
C6_ExtensionBoundary ==
    (call.op = "create_with_extension" /\ Le(call.now, TIMESTAMP_BITMASK)) =>
        (IsSome(call.ret) <=> call.ext.val <= 32767)

\* C6 witness: create_with_extension(32768) with the clock in range returned None.
C6_Witness ==
    /\ call.op = "create_with_extension"
    /\ call.ext = Some(32768)
    /\ Le(call.now, TIMESTAMP_BITMASK)
    /\ call.ret = None

\* C7 as stated: generation fails whenever the clock exceeds 2^42 - 1, and every
\* generated identifier has timestamp() <= 2^42 - 1.
C7_Timestamp42 ==
    /\ (CallPacksClock /\ Gt(call.now, Mask42)) => call.ret = None
    /\ (CallPacksClock /\ IsSome(call.ret)) => Le(timestamp(call.ret.val), Mask42)

\* C7 amended: generation fails whenever the clock exceeds 2^45 - 1; a generated
\* identifier carries the clock reading itself as its timestamp, which is at most
\* 2^45 - 1.
C7_Timestamp45 ==
    /\ (CallPacksClock /\ Gt(call.now, Mask45)) => call.ret = None
    /\ (CallPacksClock /\ IsSome(call.ret)) => timestamp(call.ret.val) = call.now
    /\ \A i \in 1..Len(euids) : Le(timestamp(euids[i]), Mask45)

\* C7 witness: next() read a clock of 2^45 after the previous millisecond and
\* returned None.
C7_Witness ==
    /\ call.op = "next"
    /\ call.now = Shl(One64, 45)
    /\ call.now # timestamp(call.prev.val)
    /\ call.ret = None

\* C8 as stated: the extension-length field is 0 when e = 0 and otherwise the
\* number of bits of e, never above 15.
C8_ExtLenZero ==
    (call.op = "create_with_extension" /\ IsSome(call.ret)) =>
        LET e == call.ext.val
        IN  /\ ExtLenField(call.ret.val) = (IF e = 0 THEN 0 ELSE BitLen(e))
            /\ ExtLenField(call.ret.val) <= 15

\* C8 amended: the extension-length field is 1 when e = 0 and otherwise the
\* number of bits of e, never above 15.
C8_ExtLenMinimal ==
    (call.op = "create_with_extension" /\ IsSome(call.ret)) =>
        LET e == call.ext.val
        IN  /\ ExtLenField(call.ret.val) = (IF e = 0 THEN 1 ELSE BitLen(e))
            /\ ExtLenField(call.ret.val) <= 15

\* C8 witness: an identifier created with extension 0 stores the length 1.
C8_Witness ==
    /\ call.op = "create_with_extension"
    /\ call.ext = Some(0)
    /\ IsSome(call.ret)
    /\ ExtLenField(call.ret.val) = 1

-----------------------------------------------------------------------------
(* Properties of the text codec, checked under SpecText.                   *)

\* Plain byte-wise string comparison s < t (of strings of one-byte characters).
StrLt(s, t) ==
    \/ \E i \in 1..Len(s) :
          /\ i <= Len(t)
          /\ s[i] < t[i]
          /\ \A j \in 1..(i - 1) : s[j] = t[j]
    \/ Len(s) < Len(t) /\ \A j \in 1..Len(s) : s[j] = t[j]

\* C1: decoding a string produced by encode(x, c), in either checksum mode,
\* returns Ok(x) and never an error.
C1_TextRoundTrip ==
    (txsrc \in {"encode_true", "encode_false"} /\ IsSome(res)) => res.val = Ok(x)

\* C1 witness: the identifier 0123456789abcdef fedcba9876543210, encoded with its
\* checksum, was decoded to itself.
C1_Witness ==
    /\ txsrc = "encode_true"
    /\ x[2] = HexWord(<<15, 14, 13, 12, 11, 10, 9, 8, 7, 6, 5, 4, 3, 2, 1, 0>>, 64)
    /\ res = Some(Ok(x))

\* C2: if one identifier is less than the other under the (hi, lo) ordering, its
\* text is less than the other's under byte-wise comparison, whatever the two
\* checksum modes.
C2_SortableText ==
    (txsrc \in {"encode_true", "encode_false"} /\ ty # <<>>) =>
        /\ partial_cmp(x, y) = -1 => StrLt(tx, ty)
        /\ partial_cmp(y, x) = -1 => StrLt(ty, tx)

\* C2 witness: x = 0 and y = 1 differ in the last identifier bit only; x carries
\* the all-ones sentinel and y its checksum 1 (last symbol '1'), and x's text is
\* the smaller.
C2_Witness ==
    /\ x = EUID(Zero64, Zero64)
    /\ y = EUID(Zero64, One64)
    /\ txsrc = "encode_false"
    /\ ty # <<>>
    /\ ty[27] = 49
    /\ StrLt(tx, ty)

-----------------------------------------------------------------------------
(* Properties of the checksum, checked under SpecCheck.                    *)

\* C9: m7 returns the identifier modulo 127, a value of 0 .. 126 and never 127,
\* in both implementations, which therefore agree.
C9_ChecksumValue ==
    /\ cstd # -1 => (cstd = Mod(n[1] \o n[2], 127) /\ cstd \in 0..126)
    /\ cnostd # -1 => (cnostd = Mod(n[1] \o n[2], 127) /\ cnostd \in 0..126)
    /\ (cstd # -1 /\ cnostd # -1) => cstd = cnostd

\* C9 witness: 254 folds to 127, and both implementations returned 0.
C9_Witness ==
    /\ n = EUID(Zero64, FromInt(254, 64))
    /\ cstd = 0
    /\ cnostd = 0

-----------------------------------------------------------------------------
(* Properties of decode's errors and of encode's output, under SpecText.   *)

\* The 32 symbols of the text form, in the order of their values.
Alphabet == Str("0123456789ABCDEFGHJKMNPQRSTVWXYZ")
AlphabetSet == {Alphabet[i] : i \in 1..32}

\* The symbol a character is read as: a lowercase letter as its uppercase, I and
\* L as 1, O as 0.
Canon(c) ==
    LET u == IF c \in 97..122 THEN c - 32 ELSE c
    IN  IF u \in {73, 76} THEN 49 ELSE IF u = 79 THEN 48 ELSE u
Accepted(c) == Canon(c) \in AlphabetSet
SymbolValue(c) == (CHOOSE i \in 1..32 : Alphabet[i] = Canon(c)) - 1

\* The first character of s that satisfies Bad(_).
FirstBad(s, Bad(_)) ==
    s[CHOOSE i \in 1..Len(s) : Bad(s[i]) /\ \A j \in 1..(i - 1) : ~Bad(s[j])]
NotInAlphabet(c) == c \notin AlphabetSet
NotAccepted(c) == ~Accepted(c)

\* A string of 27 accepted symbols, and the 135 bits it carries: 5 per symbol, the
\* first symbol's first; 128 identifier bits, then 7 checksum bits.
WellFormed(s) == Len(s) = 27 /\ \A i \in 1..27 : Accepted(s[i])
PayloadBits(s) ==
    Word([k \in 1..135 |->
            (SymbolValue(s[((k - 1) \div 5) + 1]) \div Pow2(4 - ((k - 1) % 5))) % 2], 135)
PayloadId(s) == LET b == PayloadBits(s) IN EUID(SubSeq(b, 1, 64), SubSeq(b, 65, 128))
PayloadCheck(s) ==
    LET b == PayloadBits(s)
    IN  b[129] * 64 + b[130] * 32 + b[131] * 16 + b[132] * 8 + b[133] * 4
        + b[134] * 2 + b[135]
PayloadMod127(s) == Mod(SubSeq(PayloadBits(s), 1, 128), 127)

C12_ChecksumMismatch ==
    ( /\ IsSome(res)
      /\ WellFormed(tx)
      /\ PayloadCheck(tx) # 127
      /\ PayloadCheck(tx) # PayloadMod127(tx) )
    => res.val = InvalidCheckmod(PayloadCheck(tx), PayloadMod127(tx))

\* C12 witness: the input of decode_test with embedded checksum 123 over a value
\* whose checksum is 56 was rejected with InvalidCheckmod(123, 56).
C12_Witness ==
    /\ txsrc = "input"
    /\ WellFormed(tx)
    /\ PayloadCheck(tx) = 123
    /\ PayloadMod127(tx) = 56
    /\ res = Some(InvalidCheckmod(123, 56))

\* C13: encode(x, false) embeds the checksum 0x7f, and a string of 27 accepted
\* symbols whose embedded checksum is 0x7f decodes to Ok of the identifier its
\* first 128 bits carry, whatever that identifier's own checksum.
C13_SentinelChecksum ==
    /\ txsrc = "encode_false" => (WellFormed(tx) /\ PayloadCheck(tx) = 127)
    /\ (IsSome(res) /\ WellFormed(tx) /\ PayloadCheck(tx) = 127)
        => res.val = Ok(PayloadId(tx))

\* C13 witness: a caller's string (not made by encode) with embedded checksum 0x7f
\* over a value whose checksum is another decoded to that value.
C13_Witness ==
    /\ txsrc = "input"
    /\ WellFormed(tx)
    /\ PayloadCheck(tx) = 127
    /\ PayloadMod127(tx) # 0
    /\ res = Some(Ok(PayloadId(tx)))

\* C19: encode returns, in both checksum modes, a string of exactly 27 characters,
\* each one of the 32 symbols 0123456789ABCDEFGHJKMNPQRSTVWXYZ.
C19_OutputFormat ==
    /\ txsrc \in {"encode_true", "encode_false"} =>
          (Len(tx) = 27 /\ \A i \in 1..Len(tx) : tx[i] \in AlphabetSet)
    /\ ty # <<>> => (Len(ty) = 27 /\ \A i \in 1..Len(ty) : ty[i] \in AlphabetSet)

\* C19 witness: the all-ones identifier, encoded with its checksum 3, gives 25
\* times 'Z', then 'W' (28) and '3'.
C19_Witness ==
    /\ x = EUID(Max64, Max64)
    /\ txsrc = "encode_true"
    /\ tx = Str("ZZZZZZZZZZZZZZZZZZZZZZZZZW3")

-----------------------------------------------------------------------------
(* Properties of comparisons and conversions, checked under SpecConv.      *)

\* The 16 bytes of the 128-bit value hi * 2^64 + lo, most significant first.
BigEndian(e) == [i \in 1..16 |-> Val8(e[1] \o e[2], 8 * (i - 1))]

\* C14: a == b iff both words are identical; cmp(a, b) is the unsigned
\* comparison of the 128-bit values hi * 2^64 + lo, which is that of u128::from(a)
\* and u128::from(b); cmp is Equal iff a == b, and is a total order
\* (antisymmetric, transitive).
C14_OrderingEquality ==
    IsSome(ord) =>
        LET o == ord.val
        IN  /\ o.eq_xy = (x = y)
            /\ o.eq_yx = o.eq_xy
            /\ o.cmp_xy = Cmp(x[1] \o x[2], y[1] \o y[2])
            /\ o.ux = x[1] \o x[2]
            /\ o.cmp_xy = Cmp(o.ux, o.uy)
            /\ o.x_again = x
            /\ (o.cmp_xy = 0) = o.eq_xy
            /\ o.cmp_yx = 0 - o.cmp_xy
            /\ (o.cmp_xy <= 0 /\ o.cmp_yz <= 0) => o.cmp_xz <= 0

\* C14 witness: (0, 2^63) was compared with (1, 0) and is the lesser, the greater
\* low word notwithstanding.
C14_Witness ==
    /\ x = EUID(Zero64, Shl(One64, 63))
    /\ y = EUID(One64, Zero64)
    /\ IsSome(ord)
    /\ ord.val.cmp_xy = -1
    /\ ~ord.val.eq_xy

\* C15: in both builds, x converted to [u8; 16] is the 16-byte big-endian form of
\* (hi, lo), and converting the array back yields x.
C15_ByteRoundTrip ==
    /\ IsSome(arr) => arr.val.val = BigEndian(x)
    /\ IsSome(back) => back.val = x

-----------------------------------------------------------------------------
(* Further properties of the generator, checked under Spec.                *)

\* C17: with the clock in range create() returns an identifier, whose
\* extension-length field is 0 and whose extension() is None, whatever the random
\* words; and for every identifier, extension() is None exactly when the low 4
\* bits of hi are 0.
C17_NoExtension ==
    /\ call.op = "create" =>
          /\ IsSome(call.ret) <=> Le(call.now, TIMESTAMP_BITMASK)
          /\ IsSome(call.ret) =>
                /\ ExtLenField(call.ret.val) = 0
                /\ extension(call.ret.val) = None
    /\ \A i \in 1..Len(euids) :
          (extension(euids[i]) = None) <=> (ExtLenField(euids[i]) = 0)

\* C17 witness: create() with all 15 padding bits set returned an identifier
\* without extension.
C17_Witness ==
    /\ call.op = "create"
    /\ IsSome(call.ret)
    /\ Low16(And(Shr(call.ret.val[1], 4), FromInt(32767, 64))) = 32767
    /\ extension(call.ret.val) = None

\* C18: next() at a clock reading t in range that differs from p.timestamp()
\* returns Some(n) with n.timestamp() = t and n.extension() = p.extension(), Some
\* or None alike.
C18_SuccessorAfterClockMoved ==
    ( /\ call.op = "next"
      /\ call.now # timestamp(call.prev.val)
      /\ Le(call.now, TIMESTAMP_BITMASK) )
    => /\ IsSome(call.ret)
       /\ timestamp(call.ret.val) = call.now
       /\ extension(call.ret.val) = extension(call.prev.val)

\* C18 witness: the successor of an identifier that stores extension 1 in 5 bits,
\* made after the clock moved, has extension 1 (stored in 1 bit).
C18_Witness ==
    /\ call.op = "next"
    /\ call.now # timestamp(call.prev.val)
    /\ ExtLenField(call.prev.val) = 5
    /\ extension(call.prev.val) = Some(1)
    /\ IsSome(call.ret)
    /\ ExtLenField(call.ret.val) = 1
    /\ extension(call.ret.val) = Some(1)

\* C20: whenever p.next() returns Some(n), at any clock reading, n is strictly
\* greater than p under the (hi, lo) ordering.
C20_NextIsGreater ==
    (call.op = "next" /\ IsSome(call.ret)) =>
        partial_cmp(call.prev.val, call.ret.val) = -1

-----------------------------------------------------------------------------
(* Properties of a damaged string, checked under SpecFlip.                 *)

\* C16: with one of the 135 payload bits of encode(x, true) flipped, decode
\* returns InvalidCheckmod, except when a flipped checksum bit makes the embedded
\* checksum 0x7f, and then it returns Ok(x); a flipped identifier bit is never
\* accepted.
C16_ChecksumSensitivity ==
    (txsrc = "flipped" /\ IsSome(res)) =>
        IF flip > 128 /\ PayloadCheck(tx) = 127
        THEN res.val = Ok(x)
        ELSE res.val.tag = "InvalidCheckmod"

\* C16 witness: the highest identifier bit of the text of fedcba9876543210 (low
\* word) was flipped and decode answered InvalidCheckmod.
C16_Witness ==
    /\ txsrc = "flipped"
    /\ flip = 1
    /\ x[2] = HexWord(<<15, 14, 13, 12, 11, 10, 9, 8, 7, 6, 5, 4, 3, 2, 1, 0>>, 64)
    /\ IsSome(res)
    /\ res.val.tag = "InvalidCheckmod"

-----------------------------------------------------------------------------
(* The placement of the bits in the text form, under SpecText.             *)

\* The value of the five bits of the word b that follow position o.
Group5(b, o) == b[o + 1] * 16 + b[o + 2] * 8 + b[o + 3] * 4 + b[o + 4] * 2 + b[o + 5]

\* C21: in encode(x, c) symbols 1 .. 25 are the top 125 bits of x in 5-bit
\* groups, most significant first; symbol 26 is (lowest 3 bits of x) << 2 |
\* (checksum >> 5); symbol 27 is checksum & 0x1f; the checksum is m7(x) if c and
\* 0x7f otherwise.  Decode reads the same positions: of 27 accepted symbols it
\* takes the first 128 bits for the identifier and the last 7 for the checksum.
C21_BitPlacement ==
    /\ txsrc \in {"encode_true", "encode_false"} =>
        LET b == x[1] \o x[2]
            checksum == IF txsrc = "encode_true" THEN m7(x) ELSE 127
        IN  /\ Len(tx) = 27
            /\ \A i \in 1..25 : tx[i] = Alphabet[Group5(b, 5 * (i - 1)) + 1]
            /\ tx[26] = Alphabet[(b[126] * 4 + b[127] * 2 + b[128]) * 4
                                 + (checksum \div 32) + 1]
            /\ tx[27] = Alphabet[(checksum % 32) + 1]
    /\ (IsSome(res) /\ WellFormed(tx)) =>
        /\ res.val.tag \in {"Ok", "InvalidCheckmod"}
        /\ res.val.tag = "Ok" =>
            /\ res.val.val = PayloadId(tx)
            /\ PayloadCheck(tx) \in {127, m7(PayloadId(tx))}
        /\ res.val.tag = "InvalidCheckmod" =>
            /\ res.val.a = PayloadCheck(tx)
            /\ res.val.b = m7(PayloadId(tx))

\* C21 witness: an identifier with a set bit among its lowest three and a
\* checksum of 32 or more, so that symbol 26 mixes both, was encoded with its
\* checksum and decoded from the same positions.
C21_Witness ==
    /\ txsrc = "encode_true"
    /\ x[2][62] + x[2][63] + x[2][64] > 0
    /\ m7(x) >= 32
    /\ res = Some(Ok(x))

-----------------------------------------------------------------------------
(* The extension length: get_ext_bit_len and the reference function of     *)
(* get_ext_bit_len_test, applied to every value the test applies them to.  *)

InitExt ==
    /\ GenInit /\ TextIdle /\ CheckIdle /\ ConvIdle
    /\ bitlen \in {Some([v |-> v, len |-> -1, len0 |-> -1]) : v \in 0..EXT_DATA_BITMASK}
    /\ fold = None
    /\ clock = None
    /\ again = None /\ nbtx = None /\ nbres = None /\ pair = None /\ draft = None

\* EUID::get_ext_bit_len(v)
GetExtBitLen ==
    /\ bitlen.val.len = -1
    /\ bitlen' = Some([bitlen.val EXCEPT !.len = get_ext_bit_len(bitlen.val.v)])
    /\ UNCHANGED <<genVars, textVars, checkVars, convVars, fold, clock, again, nbtx, nbres, pair, draft>>

\* get_ext_bit_len0(v)
GetExtBitLen0 ==
    /\ bitlen.val.len0 = -1
    /\ bitlen' = Some([bitlen.val EXCEPT !.len0 = get_ext_bit_len0(bitlen.val.v)])
    /\ UNCHANGED <<genVars, textVars, checkVars, convVars, fold, clock, again, nbtx, nbres, pair, draft>>

ExtNext == GetExtBitLen \/ GetExtBitLen0

SpecExt == InitExt /\ [][ExtNext]_vars

\* The number of bits of v: the index of its highest set bit plus one (0 for 0).
RECURSIVE Bits(_)
Bits(v) == IF v = 0 THEN 0 ELSE 1 + Bits(v \div 2)

\* C22: for every v in 0 .. 32767 get_ext_bit_len returns what the reference
\* function of the test returns: the index of the highest set bit of v plus one,
\* and 1 for v = 0 and v = 1; the result lies in 1 .. 15, so it fits the 4-bit
\* length field and 15 - ext_len is not negative.
C22_ExtBitLen ==
    LET b == bitlen.val
    IN  /\ (b.len # -1 /\ b.len0 # -1) => b.len = b.len0
        /\ b.len # -1 =>
            /\ b.len = (IF b.v = 0 THEN 1 ELSE Bits(b.v))
            /\ b.v \in {0, 1} => b.len = 1
            /\ b.len \in 1..15
            /\ b.len <= EXT_LEN_BITMASK
            /\ 15 - b.len >= 0

\* C22 witness: both functions were applied to 0x4000, whose highest set bit is
\* bit 14, and both returned 15.
C22_Witness ==
    /\ bitlen.val.v = 16384
    /\ bitlen.val.len = 15
    /\ bitlen.val.len0 = 15

-----------------------------------------------------------------------------
(* The loop of m7, one fold at a time, in each of its two builds.  The     *)
(* variable i is kept as one 128-bit word in both.                         *)

\* Mutant of the fold of m7 (feature "std"): the high part is i >> 8.
fold_std_shift8(i) == Add(And(i, FromInt(127, 128)), Shr(i, 8))

\* (i & p) + (i >> 7), the fold of m7 (feature "std") on a u128
fold_std(i) == Add(And(i, FromInt(127, 128)), Shr(i, 7))

\* add_u128((0, i.1 & p), shift_right7((i.0, i.1))), the fold of m7 without
\* feature "std" on a pair of u64
fold_nostd(i) ==
    LET v == <<SubSeq(i, 1, 64), SubSeq(i, 65, 128)>>
        r == add_u128(<<Zero64, And(v[2], FromInt(127, 64))>>, shift_right7(v))
    IN  r[1] \o r[2]

\* The builds of m7.
Impls == {"std", "nostd"}

InitFold ==
    /\ GenInit /\ TextIdle /\ CheckIdle /\ ConvIdle
    /\ bitlen = None
    /\ clock = None
    /\ again = None /\ nbtx = None /\ nbres = None /\ pair = None /\ draft = None
    /\ \E impl \in Impls, hi \in CheckWords, lo \in CheckWords :
        fold = Some([impl |-> impl, n |-> hi \o lo, i |-> hi \o lo, prev |-> hi \o lo,
                     steps |-> 0, pc |-> "loop", ret |-> -1])

\* The condition of the loop: `i > p`, or `is_gt_p(i, p)`.
FoldAgain(f) ==
    IF f.impl = "std"
    THEN Gt(f.i, FromInt(127, 128))
    ELSE is_gt_p(<<SubSeq(f.i, 1, 64), SubSeq(f.i, 65, 128)>>, FromInt(127, 64))

\* One fold: the one before the loop, or one pass of the loop.
FoldStep ==
    /\ fold.val.pc = "loop"
    /\ fold.val.steps = 0 \/ FoldAgain(fold.val)
    /\ fold' = Some([fold.val EXCEPT
                        !.i = IF fold.val.impl = "std" THEN fold_std(fold.val.i)
                              ELSE fold_nostd(fold.val.i),
                        !.prev = fold.val.i,
                        !.steps = fold.val.steps + 1])
    /\ UNCHANGED <<genVars, textVars, checkVars, convVars, bitlen, clock, again, nbtx, nbres, pair, draft>>

\* The loop is left and m7 returns.
FoldExit ==
    /\ fold.val.pc = "loop"
    /\ fold.val.steps > 0
    /\ ~FoldAgain(fold.val)
    /\ fold' = Some([fold.val EXCEPT
                        !.pc = "done",
                        !.ret = IF fold.val.i = FromInt(127, 128) THEN 0
                                ELSE Low16(fold.val.i)])
    /\ UNCHANGED <<genVars, textVars, checkVars, convVars, bitlen, clock, again, nbtx, nbres, pair, draft>>

FoldNext == FoldStep \/ FoldExit

SpecFold == InitFold /\ [][FoldNext]_vars

\* C23: one fold (v & 0x7f) + (v >> 7) preserves v modulo 127, is below v for
\* every v above 127 and never overflows 128 bits (a sum that wrapped around
\* 2^128 would be below each of its terms); the loop of m7 terminates, in both
\* builds: it makes at most 19 folds, each one a step of this specification, and
\* it is left with a value of at most 127, from which m7 returns v modulo 127.
C23_FoldingTerminates ==
    LET f == fold.val
    IN  /\ Mod(f.i, 127) = Mod(f.n, 127)
        /\ f.steps > 0 =>
            /\ Gt(f.prev, FromInt(127, 128)) => Lt(f.i, f.prev)
            /\ Le(Shr(f.prev, 7), f.i)
            /\ Le(And(f.prev, FromInt(127, 128)), f.i)
        /\ f.steps <= 19
        /\ (f.pc = "loop" /\ f.steps > 0 /\ ~FoldAgain(f)) => Le(f.i, FromInt(127, 128))
        /\ f.pc = "done" =>
            /\ Le(f.i, FromInt(127, 128))
            /\ f.ret = Mod(f.n, 127)

\* C23 witness: the largest 128-bit value was folded more than twice without
\* feature "std" and the loop was left with 3, its value modulo 127.
C23_Witness ==
    /\ fold.val.impl = "nostd"
    /\ fold.val.n = Max64 \o Max64
    /\ fold.val.steps > 2
    /\ fold.val.pc = "done"
    /\ fold.val.ret = 3

-----------------------------------------------------------------------------
(* The clock (time.rs): a reading of the system clock, less an epoch.      *)

\* fn normalize_timestamp(now: u64, epoch: u64) -> u64
normalize_timestamp(now, epoch) ==
    IF Lt(epoch, now) THEN Sub(now, epoch) ELSE now

\* pub fn get_timestamp_from_epoch(epoch: u64) -> u64; duration is what
\* SystemTime::now().duration_since(UNIX_EPOCH) returned: Some(milliseconds), or
\* None for its error.
get_timestamp_from_epoch(epoch, duration) ==
    IF IsSome(duration)
    THEN LET millis == duration.val
             final_epoch == And(epoch, HexWord(<<3>> \o Rep(15, 10), 64))
         IN  normalize_timestamp(millis, final_epoch)
    ELSE Zero64

\* The clock readings and the epoch offsets the model draws from, in
\* milliseconds: 0, 1, 2, 5, 1000, 2^41, 2^42 - 1, 2^42, 2^42 + 5, 2^63 and
\* u64::MAX.
Readings ==
    { Zero64, One64, FromInt(2, 64), FromInt(5, 64), FromInt(1000, 64), Shl(One64, 41),
      HexWord(<<3>> \o Rep(15, 10), 64), Shl(One64, 42),
      Or(Shl(One64, 42), FromInt(5, 64)), Shl(One64, 63), Max64 }

InitTime ==
    /\ GenInit /\ TextIdle /\ CheckIdle /\ ConvIdle
    /\ bitlen = None
    /\ fold = None
    /\ again = None /\ nbtx = None /\ nbres = None /\ pair = None /\ draft = None
    /\ \E epoch \in Readings, d \in {None} \cup {Some(m) : m \in Readings} :
        clock = Some([epoch |-> epoch, duration |-> d, ts |-> None])

\* get_timestamp_from_epoch(epoch)
GetTimestampFromEpoch ==
    /\ clock.val.ts = None
    /\ clock' = Some([clock.val EXCEPT
                        !.ts = Some(get_timestamp_from_epoch(clock.val.epoch,
                                                             clock.val.duration))])
    /\ UNCHANGED <<genVars, textVars, checkVars, convVars, bitlen, fold, again, nbtx, nbres, pair, draft>>

SpecTime == InitTime /\ [][GetTimestampFromEpoch]_vars

\* C24: for every clock reading now and epoch offset epoch, the timestamp is
\* now - epoch whenever epoch <= now, and the raw reading now only when
\* epoch > now.
C24_EpochOffset ==
    LET c == clock.val
    IN  (IsSome(c.ts) /\ IsSome(c.duration)) =>
            c.ts.val = IF Le(c.epoch, c.duration.val)
                       THEN Sub(c.duration.val, c.epoch)
                       ELSE c.duration.val

-----------------------------------------------------------------------------
(* The generator when the random source fails, under Spec.                 *)

\* The random padding of hi (between the extension and the timestamp) and the
\* random word lo are zero.
RandomBitsZero(e) ==
    /\ Shr(And(e[1], FromInt(524287, 64)), 4 + ExtLenField(e)) = Zero64
    /\ e[2] = Zero64

\* C25: when the random source fails random_u32 returns 0 and random_u128 (0, 0),
\* and create / create_with_extension / next return Some identifier exactly when
\* the timestamp, extension and counter checks pass, with every random bit zero;
\* the failure alone never makes them return None.
C25_RandomFailure ==
    (call.op \in {"create", "create_with_extension", "next"} /\ call.rnd = "Err") =>
        /\ random_u32(GetRandomErr) = FromInt(0, 32)
        /\ random_u128(GetRandomErr) = <<Zero64, Zero64>>
        /\ IsSome(call.ret) <=>
            IF call.op = "next" /\ call.now = timestamp(call.prev.val)
            THEN Counter(call.prev.val) # CounterMax
            ELSE /\ Le(call.now, TIMESTAMP_BITMASK)
                 /\ call.op = "create_with_extension" => call.ext.val <= EXT_DATA_BITMASK
        /\ IsSome(call.ret) =>
            IF call.op = "next" /\ call.now = timestamp(call.prev.val)
            THEN Trunc(call.ret.val[2], 32) = FromInt(0, 32)
            ELSE RandomBitsZero(call.ret.val)

\* C25 witness: create_with_extension(255) was called while the random source
\* failed and returned an identifier whose random bits are all zero.
C25_Witness ==
    /\ call.op = "create_with_extension"
    /\ call.rnd = "Err"
    /\ call.ext = Some(255)
    /\ IsSome(call.ret)
    /\ call.ret.val[2] = Zero64
    /\ extension(call.ret.val) = Some(255)

-----------------------------------------------------------------------------
(* The text codec in both of its builds: an identifier is encoded by each, *)
(* a string is decoded by each, and what was decoded is encoded again.     *)

InitCodec == InitText /\ y = EUID(Zero64, Zero64)

\* x.encode(checkmod), feature "non_binary", in the mode tx was made in
EncodeNonBinary ==
    /\ txsrc \in {"encode_true", "encode_false"}
    /\ nbtx = None
    /\ nbtx' = Some(encode_non_binary(x, txsrc = "encode_true"))
    /\ UNCHANGED <<genVars, textVars, checkVars, convVars, bitlen, fold, clock,
                   again, nbres, pair, draft>>

\* EUID::from_str(tx), feature "non_binary"
DecodeNonBinary ==
    /\ txsrc # "none"
    /\ nbres = None
    /\ nbres' = Some(decode_non_binary(tx))
    /\ UNCHANGED <<genVars, textVars, checkVars, convVars, bitlen, fold, clock,
                   again, nbtx, pair, draft>>

\* The identifier that decode returned is encoded again, in either mode.
Reencode ==
    /\ IsSome(res)
    /\ res.val.tag = "Ok"
    /\ again = None
    /\ \E checkmod \in BOOLEAN :
        again' = Some([checkmod |-> checkmod, text |-> encode(res.val.val, checkmod)])
    /\ UNCHANGED <<genVars, textVars, checkVars, convVars, bitlen, fold, clock,
                   nbtx, nbres, pair, draft>>

CodecNext ==
    EncodeX \/ Input \/ Decode \/ EncodeNonBinary \/ DecodeNonBinary \/ Reencode

SpecCodec == InitCodec /\ [][CodecNext]_vars

\* The string s with every character replaced by the symbol it is read as.
CanonText(s) == [i \in 1..Len(s) |-> Canon(s[i])]

C28_EncodersAgree ==
    IsSome(nbtx) => (nbtx.val = tx /\ Len(nbtx.val) = 27)

\* C28 witness: 0123456789abcdef fedcba9876543210 was encoded with its checksum
\* by both encoders, to the same string.
C28_Witness ==
    /\ x[2] = HexWord(<<15, 14, 13, 12, 11, 10, 9, 8, 7, 6, 5, 4, 3, 2, 1, 0>>, 64)
    /\ txsrc = "encode_true"
    /\ nbtx = Some(tx)

\* C29: for every input string the decoder of the build with feature
\* "non_binary" returns what the default decoder returns, the same Ok or the same
\* error value, and fails in no other way.
C29_DecodersAgree ==
    (IsSome(res) /\ IsSome(nbres)) => nbres.val = res.val

-----------------------------------------------------------------------------
(* Two threads call next() on one identifier.  next takes &self and the    *)
(* identifier is never written, so each call is one step: it reads the     *)
(* identifier, the clock and the random source, and returns.               *)

Threads == {"a", "b"}

InitPair ==
    /\ GenInit /\ TextIdle /\ CheckIdle /\ ConvIdle
    /\ bitlen = None /\ fold = None /\ clock = None
    /\ again = None /\ nbtx = None /\ nbres = None /\ draft = None
    /\ \E p \in Adopted : pair = Some([prev |-> p, calls |-> [t \in Threads |-> None]])

\* Thread t calls pair.prev.next().
NextCall(t) ==
    /\ pair.val.calls[t] = None
    /\ \E now \in Clocks, g \in GetRandom :
        pair' = Some([pair.val EXCEPT
                        !.calls[t] = Some([now |-> now, rnd |-> g.tag,
                                           ret |-> next(pair.val.prev, now, g)])])
    /\ UNCHANGED <<genVars, textVars, checkVars, convVars, bitlen, fold, clock,
                   again, nbtx, nbres, draft>>

SpecPair == InitPair /\ [][\E t \in Threads : NextCall(t)]_vars

\* C27: two next() calls on the same identifier p, both made within p's
\* millisecond while p's counter is below 0xffffffff, both return Some, and the
\* two results have p's hi and the same upper 32 bits of lo (p's counter plus
\* one); they differ at most in the low 32 bits of lo.
C27_UnsynchronizedSuccessors ==
    LET p == pair.val.prev
        a == pair.val.calls["a"]
        b == pair.val.calls["b"]
    IN  ( /\ IsSome(a) /\ IsSome(b)
          /\ a.val.now = timestamp(p) /\ b.val.now = timestamp(p)
          /\ Counter(p) # CounterMax ) =>
            /\ IsSome(a.val.ret) /\ IsSome(b.val.ret)
            /\ a.val.ret.val[1] = p[1] /\ b.val.ret.val[1] = p[1]
            /\ Counter(a.val.ret.val) = Add(Counter(p), One64)
            /\ Counter(b.val.ret.val) = Counter(a.val.ret.val)

\* C27 witness: both calls were made within p's millisecond, both drew from a
\* working random source and both returned one and the same identifier.
C27_Witness ==
    LET p == pair.val.prev
        a == pair.val.calls["a"]
        b == pair.val.calls["b"]
    IN  /\ IsSome(a) /\ IsSome(b)
        /\ a.val.now = timestamp(p) /\ b.val.now = timestamp(p)
        /\ a.val.rnd = "Ok" /\ b.val.rnd = "Ok"
        /\ IsSome(a.val.ret)
        /\ a.val.ret = b.val.ret

-----------------------------------------------------------------------------
(* The draft layout (rust/euid.rs): an identifier of four u32 words, word  *)
(* k of the source being element k + 1.                                    *)

\* const VERSION: u8 = 0u8
VERSION == 0

\* fn shard_id_bit_len(v: &u16) -> u32: the loop from i = 14 down to 0 returns
\* i + 1 at the first i with v >> i != 0, which is the largest such i, and 0 is
\* returned after it.
shard_id_bit_len(v) ==
    LET hits == {i \in 0..14 : v \div Pow2(i) # 0}
    IN  IF hits = {} THEN 0
        ELSE (CHOOSE i \in hits : \A j \in hits : j <= i) + 1

\* fn engine_random_euid(euid: &mut [u32; 4], now: u64, shard_id: u16, version: u8):
\* the words it leaves in euid.  `<<` binds tighter than `&`, so rw1 is
\* (euid[1] >> 7) & ((1 << len) << (len + 7)); a bit shifted out of the u32 is
\* lost.
engine_random_euid(euid, now, shard_id, version) ==
    LET len == shard_id_bit_len(shard_id)
        w1 == Or(Or(Or(Shl(Trunc(And(now, FromInt(1023, 64)), 32), 22),
                       Shl(FromInt(shard_id, 32), 7)),
                    Shl(FromInt(len, 32), 3)),
                 FromInt(version, 32))
        rw1 == And(Shr(euid[2], 7), Shl(Shl(FromInt(1, 32), len), len + 7))
    IN  <<Trunc(Shr(now, 10), 32), Or(w1, rw1), euid[3], euid[4]>>

\* pub fn timestamp(&self) -> u64
draft_timestamp(self) ==
    Or(Shl(ZeroExt(self[1], 64), 10), Shr(ZeroExt(self[2], 64), 22))

\* pub fn shard_id(&self) -> u16
draft_shard_id(self) ==
    LET len == Low16(And(Shr(self[2], 3), FromInt(15, 32)))
    IN  Low16(And(Shr(self[2], 7), FromInt(Pow2(len) - 1, 32)))

\* The clock values below 2^42, the shard ids and the words random::random left
\* in euid that the model draws from.
InitDraft ==
    /\ GenInit /\ TextIdle /\ CheckIdle /\ ConvIdle
    /\ bitlen = None /\ fold = None /\ clock = None
    /\ again = None /\ nbtx = None /\ nbres = None /\ pair = None
    /\ \E now \in {Zero64, One64, FromInt(2, 64), FromInt(1021, 64), FromInt(1024, 64),
                   Shl(One64, 41), HexWord(<<3>> \o Rep(15, 10), 64)},
          shard_id \in {0, 1, 2, 3, 127, 128, 255, 256, 4095, 4096, 16384, 32767},
          r \in {FromInt(0, 32), HexWord(Rep(15, 8), 32)},
          r1 \in {FromInt(0, 32), HexWord(Rep(15, 8), 32), HexWord(<<4>> \o Rep(0, 7), 32),
                  HexWord(Rep(5, 8), 32)} :
        draft = Some([now |-> now, shard_id |-> shard_id, euid |-> <<r, r1, r, r>>,
                      out |-> None])

\* EUID::engine_random_euid(&mut euid, now, shard_id, EUID::VERSION)
EngineRandomEuid ==
    /\ draft.val.out = None
    /\ draft' = Some([draft.val EXCEPT
                        !.out = Some(engine_random_euid(draft.val.euid, draft.val.now,
                                                        draft.val.shard_id, VERSION))])
    /\ UNCHANGED <<genVars, textVars, checkVars, convVars, bitlen, fold, clock,
                   again, nbtx, nbres, pair>>

SpecDraft == InitDraft /\ [][EngineRandomEuid]_vars

\* C30: for every clock value below 2^42, every shard id of 0 .. 32767 and every
\* value of the pre-filled random words, the identifier that engine_random_euid
\* writes reports timestamp() == now and shard_id() == shard_id.
C30_DraftRoundTrip ==
    IsSome(draft.val.out) =>
        /\ draft_timestamp(draft.val.out.val) = draft.val.now
        /\ draft_shard_id(draft.val.out.val) = draft.val.shard_id

=============================================================================
